---- MODULE Spec2Model ----
(***************************************************************************)
(* A model of the prompt_template package: the configuration model, the   *)
(* Jinja2-based renderer, the validator and the Template facade.          *)
(*                                                                         *)
(* Texts.  A template body is a sequence of tokens; the string it stands  *)
(* for is the tokens joined by single spaces.  "{{" and "}}" are the      *)
(* print delimiters, "x", "y" are identifiers (literal text outside a    *)
(* print statement), " " is whitespace, and "{{ x }}" is the three tokens *)
(* "{{", "x", "}}" written as one.  Rendered text is a sequence of items  *)
(* joined the same way.  A template name is a sequence of characters.     *)
(*                                                                         *)
(* Values.  A Python value is a record [k, s, n]: its class, its string   *)
(* payload and its numeric payload.                                         *)
(***************************************************************************)
EXTENDS Integers, Sequences, FiniteSets, TLC

VARIABLES
    config,     \* the TemplateConfig held by the Template, or NoConfig
    last,       \* the last call on the Template facade and its outcome
    results,    \* a pool of ValidationResult objects
    lastOp,     \* the last operation applied to the pool
    probe,      \* the last call of _validate_value_type
    tiktoken,   \* the class-level tokenizer cache of TokenCounter
    counter,    \* the TokenCounter in use and the object that owns it
    threads,    \* the threads constructing and using TokenCounter objects
    report,     \* the last call of the analyzer or the quality scorer
    semantic,   \* the SemanticValidationResult under construction
    caller,     \* the dict the caller holds, and the last call it was given to
    scan        \* the nesting-depth scan in progress

vars == <<config, last, results, lastOp, probe, tiktoken, counter, threads,
          report, semantic, caller, scan>>

\* The state of the analysis modules, untouched by the Template facade.
analysisVars ==
    <<tiktoken, counter, threads, report, semantic, caller, scan>>

(***************************** bounds *************************************)
MaxBody == 3
MaxValBody == 2
MaxVars == 2
MaxMsgs == 2
MaxContent == 2
MaxText == 4
MaxAdded == 2
MaxTags == 4
MaxAttempts == 3
NumThreads == 2

RECURSIVE SeqsUpTo(_, _)
SeqsUpTo(S, n) ==
    IF n = 0 THEN {<<>>}
    ELSE LET shorter == SeqsUpTo(S, n - 1)
         IN  shorter \cup {Append(q, e) : q \in shorter, e \in S}

Range(q) == {q[i] : i \in 1..Len(q)}

Max_second(a, b) == b

\* max(a, b)
Max(a, b) == IF a >= b THEN a ELSE b

(************************* Python values **********************************)
PyNone == [k |-> "NoneType", s |-> "", n |-> 0]
PyStr(t) == [k |-> "str", s |-> t, n |-> 0]
PyInt(i) == [k |-> "int", s |-> "", n |-> i]
PyFloat(i) == [k |-> "float", s |-> "", n |-> i]
PyBool(b) == [k |-> "bool", s |-> "", n |-> IF b THEN 1 ELSE 0]
PyList(t) == [k |-> "list", s |-> t, n |-> 0]
PyDict(t) == [k |-> "dict", s |-> t, n |-> 0]

\* The classes a value is an instance of: bool is a subclass of int.
ClassesOf(v) == IF v.k = "bool" THEN {"bool", "int"} ELSE {v.k}

isinstance(v, classes) == ClassesOf(v) \cap classes # {}

\* Python's ==: numbers compare by value across int, float and bool.
NumericKinds == {"int", "float", "bool"}

PyEq(a, b) ==
    IF a.k \in NumericKinds /\ b.k \in NumericKinds THEN a.n = b.n
    ELSE a.k = b.k /\ a.s = b.s

\* Python's `value in list`.
PyIn(v, items) == \E i \in 1..Len(items) : PyEq(v, items[i])

Digit(i) == CASE i = 0 -> "0" [] i = 1 -> "1" [] i = 2 -> "2" [] i = 3 -> "3"
              [] i = 4 -> "4" [] i = 5 -> "5" [] i = 6 -> "6" [] i = 7 -> "7"
              [] i = 8 -> "8" [] OTHER -> "9"

\* Python's str(v).
Str(v) ==
    CASE v.k = "str" -> v.s
      [] v.k = "int" -> Digit(v.n)
      [] v.k = "float" -> Digit(v.n) \o ".0"
      [] v.k = "bool" -> IF v.n = 1 THEN "True" ELSE "False"
      [] v.k = "NoneType" -> "None"
      [] v.k = "list" -> IF v.s = "" THEN "[]" ELSE "['" \o v.s \o "']"
      [] OTHER -> IF v.s = "" THEN "{}" ELSE "{'k': '" \o v.s \o "'}"

AllValues ==
    {PyNone, PyStr("a"), PyStr("b"), PyInt(0), PyInt(1), PyInt(2),
     PyFloat(1), PyFloat(2), PyBool(TRUE), PyBool(FALSE),
     PyList(""), PyList("a"), PyDict(""), PyDict("a")}

(************************* models.py **************************************)
VariableType == {"string", "integer", "float", "boolean", "list", "object"}

VarNames == {"x", "y"}

\* enum: list[Any] | None
NoEnum == [set |-> FALSE, items |-> <<>>]
Enum(items) == [set |-> TRUE, items |-> items]

VariableConfig(name, type, required, default, enum) ==
    [name |-> name, type |-> type, required |-> required,
     default |-> default, enum |-> enum, description |-> <<>>]

(************************* validator.py: ValidationResult *****************)
Msg(code, name) == [code |-> code, name |-> name]

ValidationResult(is_valid) ==
    [is_valid |-> is_valid, errors |-> <<>>, warnings |-> <<>>]

add_error(self, message) ==
    [self EXCEPT !.errors = Append(@, message), !.is_valid = FALSE]

add_warning(self, message) ==
    [self EXCEPT !.warnings = Append(@, message)]

merge_keeps_valid(self, other) ==
    [self EXCEPT !.errors = @ \o other.errors,
                 !.warnings = @ \o other.warnings]

merge(self, other) ==
    [self EXCEPT !.errors = @ \o other.errors,
                 !.warnings = @ \o other.warnings,
                 !.is_valid = IF ~other.is_valid THEN FALSE ELSE @]

(************************* validator.py: _validate_value_type *************)
is_int_accepts_bool(v) == isinstance(v, {"int"})

is_int(v) == isinstance(v, {"int"}) /\ ~isinstance(v, {"bool"})

is_float(v) == isinstance(v, {"int", "float"}) /\ ~isinstance(v, {"bool"})

type_checks(expected_type, v) ==
    CASE expected_type = "string" -> isinstance(v, {"str"})
      [] expected_type = "integer" -> is_int(v)
      [] expected_type = "float" -> is_float(v)
      [] expected_type = "boolean" -> isinstance(v, {"bool"})
      [] expected_type = "list" -> isinstance(v, {"list"})
      [] OTHER -> isinstance(v, {"dict"})

_validate_value_type(name, value, expected_type) ==
    LET result == ValidationResult(TRUE)
    IN  IF expected_type \in VariableType /\ ~type_checks(expected_type, value)
        THEN add_error(result, Msg("type_mismatch", name))
        ELSE result

(************************* call outcomes **********************************)
\* What a call does: it returns a text, returns a ValidationResult, or raises.
NoResult == [is_valid |-> TRUE, errors |-> <<>>, warnings |-> <<>>]

Return(text) ==
    [kind |-> "return", exc |-> "", text |-> text, errors |-> <<>>,
     res |-> NoResult]

ReturnResult(res) ==
    [kind |-> "result", exc |-> "", text |-> <<>>, errors |-> <<>>,
     res |-> res]

Raise(exc, errors) ==
    [kind |-> "raise", exc |-> exc, text |-> <<>>, errors |-> errors,
     res |-> NoResult]

(************************* renderer.py ************************************)
Identifiers == {"x", "y"}

Placeholder(name) == "{{ " \o name \o " }}"

PlaceholderTokens == {Placeholder(n) : n \in Identifiers}

NameOf(tok) == CHOOSE n \in Identifiers : Placeholder(n) = tok

\* The tokens of a body with every "{{ name }}" written out.
RECURSIVE Expand(_)
Expand(body) ==
    IF body = <<>> THEN <<>>
    ELSE LET t == Head(body)
         IN  (IF t \in PlaceholderTokens THEN <<"{{", NameOf(t), "}}">>
              ELSE <<t>>) \o Expand(Tail(body))

DataNode(t) == [t |-> "data", s |-> t]
NameNode(n) == [t |-> "name", s |-> n]

SyntaxError == [ok |-> FALSE, nodes |-> <<>>]

\* Jinja2's lexer and parser on the token alphabet: outside a print
\* statement everything but "{{" is data; inside one, whitespace is
\* skipped and exactly one identifier must precede "}}".  A second
\* identifier, an empty statement, a brace opened inside the statement,
\* punctuation or the end of the template is a TemplateSyntaxError.
RECURSIVE Scan(_, _, _, _, _)
Scan(raw, i, inPrint, names, nodes) ==
    IF i > Len(raw)
    THEN IF inPrint THEN SyntaxError ELSE [ok |-> TRUE, nodes |-> nodes]
    ELSE LET t == raw[i]
         IN  IF ~inPrint
             THEN IF t = "{{"
                  THEN Scan(raw, i + 1, TRUE, <<>>, nodes)
                  ELSE Scan(raw, i + 1, FALSE, <<>>, Append(nodes, DataNode(t)))
             ELSE CASE t = " " -> Scan(raw, i + 1, TRUE, names, nodes)
                    [] t \in Identifiers ->
                         Scan(raw, i + 1, TRUE, Append(names, t), nodes)
                    [] t = "}}" ->
                         IF Len(names) = 1
                         THEN Scan(raw, i + 1, FALSE, <<>>,
                                   Append(nodes, NameNode(names[1])))
                         ELSE SyntaxError
                    [] OTHER -> SyntaxError

env_parse(template_string) == Scan(Expand(template_string), 1, FALSE, <<>>, <<>>)

\* Template.render of the compiled template: data is copied, a name is
\* looked up in the context and converted with str(); an undefined name
\* raises under StrictUndefined and prints as the empty string otherwise.
RECURSIVE Evaluate(_, _, _)
Evaluate(nodes, variables, strict) ==
    IF nodes = <<>> THEN Return(<<>>)
    ELSE LET node == Head(nodes)
             rest == Evaluate(Tail(nodes), variables, strict)
             item == IF node.t = "data" THEN node.s
                     ELSE IF node.s \in DOMAIN variables
                          THEN Str(variables[node.s])
                          ELSE ""
         IN  IF node.t = "name" /\ node.s \notin DOMAIN variables /\ strict
             THEN Raise("UndefinedError", <<Msg("undefined", node.s)>>)
             ELSE IF rest.kind = "raise" THEN rest
                  ELSE Return(<<item>> \o rest.text)

env_render(template_string, variables, strict) ==
    LET ast == env_parse(template_string)
    IN  IF ~ast.ok THEN Raise("TemplateSyntaxError", <<Msg("syntax", "")>>)
        ELSE Evaluate(ast.nodes, variables, strict)

TemplateRenderer_render(template_string, variables) ==
    env_render(template_string, variables, TRUE)

\* re.findall(r"\{\{\s*([a-zA-Z_][a-zA-Z0-9_]*)", template_string)
RECURSIVE SkipSpace(_, _)
SkipSpace(raw, i) ==
    IF i <= Len(raw) /\ raw[i] = " " THEN SkipSpace(raw, i + 1) ELSE i

_extract_variables_regex(template_string) ==
    LET raw == Expand(template_string)
    IN  {raw[SkipSpace(raw, i + 1)] :
            i \in {j \in 1..Len(raw) :
                     /\ raw[j] = "{{"
                     /\ SkipSpace(raw, j + 1) <= Len(raw)
                     /\ raw[SkipSpace(raw, j + 1)] \in Identifiers}}

extract_variables(template_string) ==
    LET ast == env_parse(template_string)
    IN  IF ast.ok
        THEN {ast.nodes[i].s : i \in {j \in 1..Len(ast.nodes) :
                                         ast.nodes[j].t = "name"}}
        ELSE _extract_variables_regex(template_string)

\* str.count(sub) for a delimiter token.
Count(template_string, tok) ==
    LET raw == Expand(template_string)
    IN  Cardinality({i \in 1..Len(raw) : raw[i] = tok})

validate_syntax(template_string) ==
    LET parse_errors ==
            IF ~env_parse(template_string).ok
            THEN <<Msg("syntax", ""), Msg("at_line", "")>> ELSE <<>>
        brace_errors ==
            IF Count(template_string, "{{") # Count(template_string, "}}")
            THEN <<Msg("unbalanced_braces", "")>> ELSE <<>>
        block_errors ==
            IF /\ Count(template_string, "{%") > 0
               /\ Count(template_string, "{%") # Count(template_string, "%}")
            THEN <<Msg("unbalanced_blocks", "")>> ELSE <<>>
    IN  parse_errors \o brace_errors \o block_errors

\* f"[{var}]"
PreviewMark(var) == PyStr("[" \o var \o "]")

PreviewError(exc) ==
    CASE exc = "TemplateSyntaxError" -> "Preview error (syntax)"
      [] exc = "UndefinedError" -> "Preview error (undefined variable)"
      [] OTHER -> "Preview error"

preview_vars_of(template_string, variables) ==
    LET template_vars == extract_variables(template_string)
    IN  [n \in DOMAIN variables \cup template_vars |->
            IF n \in DOMAIN variables THEN variables[n] ELSE PreviewMark(n)]

preview_no_placeholders(template_string, variables) ==
    LET out == env_render(template_string, variables, FALSE)
    IN  IF out.kind = "raise" THEN Return(<<PreviewError(out.exc)>>) ELSE out

TemplateRenderer_preview(template_string, variables) ==
    LET preview_vars == preview_vars_of(template_string, variables)
        out == env_render(template_string, preview_vars, FALSE)
    IN  IF out.kind = "raise" THEN Return(<<PreviewError(out.exc)>>) ELSE out

(************************* models.py: TemplateConfig **********************)
\* str | None
NoneText == [none |-> TRUE, text |-> <<>>]
Text(t) == [none |-> FALSE, text |-> t]

TemplateConfig(name, template, system_prompt, user_prompt, variables) ==
    [name |-> name, template |-> template, system_prompt |-> system_prompt,
     user_prompt |-> user_prompt, variables |-> variables,
     description |-> <<>>, tags |-> <<>>]

\* str.strip() on a text whose whitespace is the token " ".
RECURSIVE LStrip(_)
LStrip(t) == IF t # <<>> /\ Head(t) = " " THEN LStrip(Tail(t)) ELSE t

RECURSIVE RStrip(_)
RStrip(t) ==
    IF t # <<>> /\ t[Len(t)] = " " THEN RStrip(SubSeq(t, 1, Len(t) - 1)) ELSE t

strip(t) == RStrip(LStrip(t))

\* str.replace(ch, "")
Remove(t, ch) == SelectSeq(t, LAMBDA c : c # ch)

AlnumChars == {"a", "1"}

isalnum(t) == t # <<>> /\ \A i \in 1..Len(t) : t[i] \in AlnumChars

\* TemplateConfig.validate_name; a name is a sequence of characters.
validate_name(v) ==
    /\ strip(v) # <<>>
    /\ isalnum(Remove(Remove(Remove(v, "-"), "_"), " "))

has_content_template_only(self) ==
    self.template # <<>> /\ strip(self.template) # <<>>

validate_has_template_content(self) ==
    LET has_template == self.template # <<>> /\ strip(self.template) # <<>>
        has_system == /\ ~self.system_prompt.none
                      /\ self.system_prompt.text # <<>>
                      /\ strip(self.system_prompt.text) # <<>>
        has_user == /\ ~self.user_prompt.none
                    /\ self.user_prompt.text # <<>>
                    /\ strip(self.user_prompt.text) # <<>>
    IN  has_template \/ has_system \/ has_user

\* TemplateConfig(**data): the field validators, then the model validator.
TemplateConfig_errors(data) ==
    IF ~validate_name(data.name) THEN <<Msg("name", "")>>
    ELSE IF ~validate_has_template_content(data) THEN <<Msg("content", "")>>
    ELSE <<>>

get_variable(self, name) ==
    LET hits == SelectSeq(self.variables, LAMBDA v : v.name = name)
    IN  IF hits = <<>> THEN <<>> ELSE <<Head(hits)>>

get_declared_required_variables(self) ==
    SelectSeq(self.variables, LAMBDA v : v.required)

get_must_provide_variables(self) ==
    SelectSeq(self.variables, LAMBDA v : v.required /\ v.default = PyNone)

get_optional_variables(self) ==
    SelectSeq(self.variables, LAMBDA v : ~v.required)

\* The list-returning methods TemplateConfig defines.
TemplateConfigMethods ==
    {"get_declared_required_variables", "get_must_provide_variables",
     "get_optional_variables"}

\* config.<method>(): an attribute the class does not define raises.
CallMethod(self, method) ==
    IF method \notin TemplateConfigMethods
    THEN [raised |-> TRUE, value |-> <<>>]
    ELSE [raised |-> FALSE,
          value |-> CASE method = "get_declared_required_variables" ->
                           get_declared_required_variables(self)
                      [] method = "get_must_provide_variables" ->
                           get_must_provide_variables(self)
                      [] OTHER -> get_optional_variables(self)]

(************************* validator.py: TemplateValidator ****************)
\* The iteration order of a set or a dict is left open.
RECURSIVE SetToSeq(_)
SetToSeq(S) ==
    IF S = {} THEN <<>>
    ELSE LET e == CHOOSE e \in S : TRUE IN <<e>> \o SetToSeq(S \ {e})

RECURSIVE add_errors(_, _)
add_errors(result, messages) ==
    IF messages = <<>> THEN result
    ELSE add_errors(add_error(result, Head(messages)), Tail(messages))

RECURSIVE add_warnings(_, _)
add_warnings(result, messages) ==
    IF messages = <<>> THEN result
    ELSE add_warnings(add_warning(result, Head(messages)), Tail(messages))

TemplateValidator_validate_syntax(template_string) ==
    add_errors(ValidationResult(TRUE), validate_syntax(template_string))

\* `if var.enum and var.default is not None: if var.default not in var.enum`
default_enum_check(var) ==
    /\ var.enum.set /\ var.enum.items # <<>>
    /\ var.default # PyNone
    /\ ~PyIn(var.default, var.enum.items)

RECURSIVE validate_variables_loop(_, _, _, _)
validate_variables_loop(variables, i, seen_names, result) ==
    IF i > Len(variables) THEN result
    ELSE LET var == variables[i]
             r1 == IF var.name \in seen_names
                   THEN add_error(result, Msg("duplicate", var.name))
                   ELSE result
             r2 == IF var.default # PyNone
                   THEN merge(r1, _validate_value_type(var.name, var.default,
                                                       var.type))
                   ELSE r1
             r3 == IF default_enum_check(var)
                   THEN add_error(r2, Msg("default_not_in_enum", var.name))
                   ELSE r2
         IN  validate_variables_loop(variables, i + 1,
                                     seen_names \cup {var.name}, r3)

validate_variables(cfg) ==
    validate_variables_loop(cfg.variables, 1, {}, ValidationResult(TRUE))

defined_vars(cfg) == {cfg.variables[i].name : i \in 1..Len(cfg.variables)}

check_unused_as_errors(cfg) ==
    add_errors(ValidationResult(TRUE),
               SetToSeq({Msg("unused", n) :
                           n \in defined_vars(cfg)
                                 \ extract_variables(cfg.template)}))

check_unused_variables_in_prompts(cfg) ==
    add_warnings(ValidationResult(TRUE),
                 SetToSeq({Msg("unused", n) :
                             n \in defined_vars(cfg)
                                   \ (extract_variables(cfg.template)
                                      \cup extract_variables(
                                               cfg.system_prompt.text)
                                      \cup extract_variables(
                                               cfg.user_prompt.text))}))

check_unused_variables(cfg) ==
    add_warnings(ValidationResult(TRUE),
                 SetToSeq({Msg("unused", n) :
                             n \in defined_vars(cfg)
                                   \ extract_variables(cfg.template)}))

check_undeclared_variables(cfg) ==
    add_warnings(ValidationResult(TRUE),
                 SetToSeq({Msg("undeclared", n) :
                             n \in extract_variables(cfg.template)
                                   \ defined_vars(cfg)}))

validate(cfg) ==
    LET r1 == merge(ValidationResult(TRUE),
                    TemplateValidator_validate_syntax(cfg.template))
        r2 == merge(r1, validate_variables(cfg))
        r3 == merge(r2, check_unused_variables(cfg))
    IN  merge(r3, check_undeclared_variables(cfg))

RECURSIVE validate_inputs_required(_, _, _)
validate_inputs_required(required, inputs, result) ==
    IF required = <<>> THEN result
    ELSE LET var == Head(required)
         IN  validate_inputs_required(
                 Tail(required), inputs,
                 IF var.name \notin DOMAIN inputs /\ var.default = PyNone
                 THEN add_error(result, Msg("missing_required", var.name))
                 ELSE result)

RECURSIVE validate_inputs_provided(_, _, _, _)
validate_inputs_provided(cfg, inputs, names, result) ==
    IF names = <<>> THEN result
    ELSE LET name == Head(names)
             value == inputs[name]
             var_config == get_variable(cfg, name)
             r1 == merge(result, _validate_value_type(name, value,
                                                      var_config[1].type))
             r2 == IF /\ var_config[1].enum.set
                      /\ ~PyIn(value, var_config[1].enum.items)
                   THEN add_error(r1, Msg("not_in_enum", name))
                   ELSE r1
         IN  validate_inputs_provided(
                 cfg, inputs, Tail(names),
                 IF var_config = <<>>
                 THEN add_warning(result, Msg("unknown", name))
                 ELSE r2)

\* validate_inputs asks the configuration for get_required_variables().
validate_inputs(cfg, inputs) ==
    LET required == CallMethod(cfg, "get_required_variables")
    IN  IF required.raised
        THEN Raise("AttributeError", <<Msg("no_attribute",
                                           "get_required_variables")>>)
        ELSE ReturnResult(
                 validate_inputs_provided(
                     cfg, inputs, SetToSeq(DOMAIN inputs),
                     validate_inputs_required(required.value, inputs,
                                              ValidationResult(TRUE))))

(************************* template.py: Template **************************)
_apply_defaults(cfg, variables) ==
    LET filled == {cfg.variables[i].name : i \in
                     {j \in 1..Len(cfg.variables) :
                        cfg.variables[j].default # PyNone}}
        first(n) == CHOOSE i \in 1..Len(cfg.variables) :
                      /\ cfg.variables[i].name = n
                      /\ cfg.variables[i].default # PyNone
                      /\ \A j \in 1..(i - 1) :
                           ~(/\ cfg.variables[j].name = n
                             /\ cfg.variables[j].default # PyNone)
    IN  [n \in DOMAIN variables \cup filled |->
            IF n \in DOMAIN variables THEN variables[n]
            ELSE cfg.variables[first(n)].default]

Template_render(cfg, variables) ==
    LET merged_vars == _apply_defaults(cfg, variables)
        validation == validate_inputs(cfg, merged_vars)
        out == TemplateRenderer_render(cfg.template, merged_vars)
    IN  IF validation.kind = "raise" THEN validation
        ELSE IF ~validation.res.is_valid
             THEN Raise("TemplateRenderError", validation.res.errors)
             ELSE IF out.kind = "raise"
                  THEN Raise("TemplateRenderError", out.errors)
                  ELSE out

Template_preview(cfg, variables) ==
    TemplateRenderer_preview(cfg.template, _apply_defaults(cfg, variables))

Template_validate(cfg) == ReturnResult(validate(cfg))

from_dict(data) ==
    LET errors == TemplateConfig_errors(data)
    IN  IF errors # <<>> THEN Raise("TemplateValidationError", errors)
        ELSE Return(<<>>)

(************************* dict objects ***********************************)
\* The dicts of a call, under the names that refer to them: "caller" is
\* the dict the caller holds, the others are created during the call.
Bind(store, name, items) == (name :> items) @@ store

_apply_defaults_in_place(store, cfg, variables) ==
    Bind(Bind(store, variables, _apply_defaults(cfg, store[variables])),
         "merged", _apply_defaults(cfg, store[variables]))

\* Template._apply_defaults, and the same lines of Template.preview, on the
\* dicts: merged = dict(variables) is a new dict, and the defaults are
\* written into it.
_apply_defaults_on(store, cfg, variables) ==
    Bind(store, "merged", _apply_defaults(cfg, store[variables]))

\* TemplateRenderer.preview on the dicts: preview_vars = dict(variables) is
\* a new dict, and the placeholders are written into it.
TemplateRenderer_preview_on(store, template_string, variables) ==
    Bind(store, "preview_vars",
         preview_vars_of(template_string, store[variables]))

\* Template.render(**variables) on the dicts: the keyword arguments arrive
\* in a new dict, variables.
Template_render_on(store, cfg) ==
    _apply_defaults_on(Bind(store, "variables", store["caller"]), cfg,
                       "variables")

\* Template.preview(**variables) on the dicts.
Template_preview_on(store, cfg) ==
    TemplateRenderer_preview_on(
        _apply_defaults_on(Bind(store, "variables", store["caller"]), cfg,
                           "variables"),
        cfg.template, "merged")

(************************* Python strings *********************************)
\* The analysis modules scan the str a text field holds.  It is modelled
\* as the sequence of its pieces: a piece is whitespace (" " or "\n") or
\* a chunk without whitespace, and adjacent chunks read as one word.
Whitespace == {" ", "\n"}

\* Words of one repeated letter, named with their length.
LongWords ==
    [w31 |-> 31, w33 |-> 33, w600 |-> 600, w1100 |-> 1100, w3100 |-> 3100,
     w24572 |-> 24572, w24576 |-> 24576, w40000 |-> 40000, w40004 |-> 40004]

PieceLen(p) == IF p \in DOMAIN LongWords THEN LongWords[p] ELSE Len(p)

\* Words separated by single spaces.
RECURSIVE Join(_)
Join(tokens) ==
    IF Len(tokens) <= 1 THEN tokens
    ELSE <<Head(tokens), " ">> \o Join(Tail(tokens))

\* The str a text field holds, piece by piece: every "{{ name }}" token
\* written out with its spaces.
RECURSIVE Chars(_)
Chars(text) ==
    IF text = <<>> THEN <<>>
    ELSE (IF Head(text) \in PlaceholderTokens
          THEN <<"{{", " ", NameOf(Head(text)), " ", "}}">>
          ELSE <<Head(text)>>) \o Chars(Tail(text))

\* config.<field> or "" of a str | None field.
OrEmpty(field) == IF field.none THEN <<>> ELSE Chars(field.text)

\* len(s)
RECURSIVE StrLen(_)
StrLen(s) == IF s = <<>> THEN 0 ELSE PieceLen(Head(s)) + StrLen(Tail(s))

\* The positions where a maximal run of whitespace starts: re.findall(r"\s+").
WhitespaceRuns(s) ==
    {i \in 1..Len(s) : s[i] \in Whitespace /\ (i = 1 \/ s[i - 1] \notin Whitespace)}

\* str(value), as a str of the analysis modules.
PyStrOf(v) ==
    IF v.k = "dict" /\ v.s # "" THEN <<"{'k':", " ", "'" \o v.s \o "'}">>
    ELSE <<Str(v)>>

(************************* analyzer.py: TokenCounter **********************)
DEFAULT_CHARS_PER_TOKEN == 4

\* The class attributes _encoding and _tiktoken_available; `installed`
\* records whether the tiktoken module can be imported, once an import
\* was tried.
TokenCounterClass(encoding, available, installed) ==
    [_encoding |-> encoding, _tiktoken_available |-> available,
     installed |-> installed]

\* What `import tiktoken; tiktoken.get_encoding("cl100k_base")` can do: load
\* the encoder, fail to import the module, or raise another exception
\* (the encoder's vocabulary cannot be read or fetched).
ImportOutcomes == {"loaded", "ImportError", "OtherError"}

PossibleOutcomes(cls) ==
    CASE cls.installed = "no" -> {"ImportError"}
      [] cls.installed = "yes" -> {"loaded", "OtherError"}
      [] OTHER -> ImportOutcomes

\* TokenCounter._check_tiktoken: the class state it leaves and whether it
\* raised.  Only ImportError is caught.
_check_tiktoken(cls, outcome) ==
    IF cls._tiktoken_available # "None"
    THEN [cls |-> cls, raised |-> FALSE, attempted |-> FALSE]
    ELSE CASE outcome = "loaded" ->
                [cls |-> TokenCounterClass("cl100k_base", "True", "yes"),
                 raised |-> FALSE, attempted |-> TRUE]
           [] outcome = "ImportError" ->
                [cls |-> TokenCounterClass(cls._encoding, "False", "no"),
                 raised |-> FALSE, attempted |-> TRUE]
           [] OTHER ->
                [cls |-> TokenCounterClass(cls._encoding, "None", "yes"),
                 raised |-> TRUE, attempted |-> TRUE]

\* TokenCounter(use_tiktoken): the instance, the class state and whether
\* the constructor raised.
TokenCounter(cls, use_tiktoken, outcome) ==
    IF use_tiktoken
    THEN LET c == _check_tiktoken(cls, outcome)
         IN  [self |-> IF c.raised THEN <<>>
                       ELSE <<[_use_tiktoken |-> TRUE]>>,
              cls |-> c.cls, raised |-> c.raised, attempted |-> c.attempted]
    ELSE [self |-> <<[_use_tiktoken |-> FALSE]>>, cls |-> cls,
          raised |-> FALSE, attempted |-> FALSE]

\* len(self._encoding.encode(text)): the encoder is outside the package;
\* it is represented by one token per piece of the text.
encode_len(text) == Len(text)

\* int(len(text) / 4.0 + whitespace_count * 0.25): both terms are
\* multiples of 0.25, so the sum is exact and int() is the floor.
TokenCounter_estimate_tokens(text) ==
    IF text = <<>> THEN 0
    ELSE (StrLen(text) + Cardinality(WhitespaceRuns(text)))
            \div DEFAULT_CHARS_PER_TOKEN

count_tokens_empty_is_one(self, cls, text) ==
    IF text = <<>> THEN 1
    ELSE (StrLen(text) + Cardinality(WhitespaceRuns(text)))
            \div DEFAULT_CHARS_PER_TOKEN

uses_encoder(self, cls) ==
    self._use_tiktoken /\ cls._tiktoken_available = "True"
        /\ cls._encoding # "None"

count_tokens(self, cls, text) ==
    IF text = <<>> THEN 0
    ELSE IF uses_encoder(self, cls) THEN encode_len(text)
    ELSE TokenCounter_estimate_tokens(text)

(************************* re: patterns on strs ***************************)
\* The chunks of the form <[a-z_]+>.
Tags ==
    {"<task>", "<role>", "<persona>", "<instructions>", "<output_format>",
     "<output>"}

\* The chunks that are not made of word characters ([a-zA-Z0-9_]).
Markup == {"{{", "}}", "{%", "%}", ".", ",", "##", "==="} \cup Tags

IsWord(p) == p \notin Whitespace \cup Markup

\* str.lower() of a chunk.
Lower(p) ==
    CASE p = "You" -> "you"
      [] p = "Please" -> "please"
      [] p = "Respond" -> "respond"
      [] p = "Maybe" -> "maybe"
      [] OTHER -> p

LowerStr(s) == [i \in 1..Len(s) |-> Lower(s[i])]

\* Pattern elements.  A pattern is matched chunk by chunk: the chunks of
\* the texts analysed contain a pattern's words only as whole chunks.
Lit(alternatives) == [k |-> "lit", v |-> alternatives]      \* (a|b), as written
ILit(alternatives) == [k |-> "ilit", v |-> alternatives]    \* under IGNORECASE
Sp == [k |-> "sp", v |-> {}]                                \* one space
Ws1 == [k |-> "ws1", v |-> {}]                              \* \s+
Ws0 == [k |-> "ws0", v |-> {}]                              \* \s*
WordChars == [k |-> "word", v |-> {}]                       \* \w+
Boundary == [k |-> "b", v |-> {}]                           \* \b

IsSpace(p) == p \in Whitespace

\* The first position from i on that holds no whitespace / no word chunk.
RECURSIVE SkipSpaces(_, _)
SkipSpaces(s, i) ==
    IF i <= Len(s) /\ IsSpace(s[i]) THEN SkipSpaces(s, i + 1) ELSE i

RECURSIVE SkipWords(_, _)
SkipWords(s, i) ==
    IF i <= Len(s) /\ IsWord(s[i]) THEN SkipWords(s, i + 1) ELSE i

WordAt(s, i) == i >= 1 /\ i <= Len(s) /\ IsWord(s[i])

\* The position after the match of pat[k..] that starts at position i of s,
\* or 0 when there is none.
RECURSIVE MatchAt(_, _, _, _)
MatchAt(pat, k, s, i) ==
    IF k > Len(pat) THEN i
    ELSE LET e == pat[k]
             here == i <= Len(s)
         IN  CASE e.k = "lit" ->
                    IF here /\ s[i] \in e.v
                    THEN MatchAt(pat, k + 1, s, i + 1) ELSE 0
               [] e.k = "ilit" ->
                    IF here /\ Lower(s[i]) \in e.v
                    THEN MatchAt(pat, k + 1, s, i + 1) ELSE 0
               [] e.k = "sp" ->
                    IF here /\ s[i] = " "
                    THEN MatchAt(pat, k + 1, s, i + 1) ELSE 0
               [] e.k = "ws1" ->
                    IF here /\ IsSpace(s[i])
                    THEN MatchAt(pat, k + 1, s, SkipSpaces(s, i))
                    ELSE 0
               [] e.k = "ws0" ->
                    MatchAt(pat, k + 1, s, SkipSpaces(s, i))
               [] e.k = "word" ->
                    IF here /\ IsWord(s[i])
                    THEN MatchAt(pat, k + 1, s, SkipWords(s, i))
                    ELSE 0
               [] OTHER ->
                    IF WordAt(s, i - 1) # WordAt(s, i)
                    THEN MatchAt(pat, k + 1, s, i) ELSE 0

\* re.search(pat, s) is not None
Search(pat, s) == \E i \in 1..Len(s) : MatchAt(pat, 1, s, i) # 0

AnySearch(patterns, s) == \E pat \in patterns : Search(pat, s)

\* len(re.findall(pat, s)): leftmost matches that do not overlap.
RECURSIVE FindAllFrom(_, _, _)
FindAllFrom(pat, s, i) ==
    IF i > Len(s) THEN 0
    ELSE LET e == MatchAt(pat, 1, s, i)
         IN  IF e > i THEN 1 + FindAllFrom(pat, s, e)
             ELSE FindAllFrom(pat, s, i + 1)

FindAll(pat, s) == FindAllFrom(pat, s, 1)

\* r"\{\{\s*" + re.escape(name) + r"\s*\}\}"
UsagePattern(name) == <<Lit({"{{"}), Ws0, Lit({name}), Ws0, Lit({"}}"})>>

\* `sub in s` for a substring that is one chunk, or part of the chunks
\* listed.
Contains(s, chunks) == \E i \in 1..Len(s) : s[i] \in chunks

\* "<" in s and ">" in s
HasAngles(s) == Contains(s, Tags)

\* "^" under re.MULTILINE: the start of the str or the position after "\n".
LineStart(s, i) == i = 1 \/ s[i - 1] = "\n"

\* len(re.findall(r"^#{1,3}\s", s, re.MULTILINE))
MarkdownHeaders(s) ==
    Cardinality({i \in 1..Len(s) :
        /\ s[i] = "##" /\ LineStart(s, i)
        /\ i < Len(s) /\ IsSpace(s[i + 1])})

\* len(re.findall(r"^===", s, re.MULTILINE))
SectionMarkers(s) ==
    Cardinality({i \in 1..Len(s) : s[i] = "===" /\ LineStart(s, i)})

\* len(re.findall(r"<[a-z_]+>", s, re.IGNORECASE))
XmlTags(s) == Cardinality({i \in 1..Len(s) : s[i] \in Tags})

\* The block keywords after each "{%", in order, for the keywords given:
\* re.finditer(r"\{%\s*(if|for|...)\s*", content)
RECURSIVE BlockTags(_, _, _)
BlockTags(s, i, keywords) ==
    IF i > Len(s) THEN <<>>
    ELSE IF s[i] = "{%"
         THEN LET j == SkipSpaces(s, i + 1)
              IN  IF j <= Len(s) /\ s[j] \in keywords
                  THEN <<s[j]>> \o BlockTags(s, j + 1, keywords)
                  ELSE BlockTags(s, i + 1, keywords)
         ELSE BlockTags(s, i + 1, keywords)

\* The running depth over the tags: +1 on an opening keyword, -1 floored
\* at 0 on a closing one, unchanged on any other; the maximum reached.
RECURSIVE MaxDepth(_, _, _, _, _, _)
MaxDepth(tags, i, current_depth, max_depth, opening, closing) ==
    IF i > Len(tags) THEN max_depth
    ELSE IF tags[i] \in opening
         THEN MaxDepth(tags, i + 1, current_depth + 1,
                       Max(max_depth, current_depth + 1), opening, closing)
         ELSE IF tags[i] \in closing
         THEN MaxDepth(tags, i + 1, Max(0, current_depth - 1), max_depth,
                       opening, closing)
         ELSE MaxDepth(tags, i + 1, current_depth, max_depth, opening, closing)

(************************* analyzer.py: model limits **********************)
\* Model identifiers are compared by substring: they are spelled by
\* character.  The table, in declaration order.
MODEL_LIMITS ==
    <<[key |-> <<"g", "p", "t", "-", "4">>, limit |-> 8192],
      [key |-> <<"g", "p", "t", "-", "4", "-", "3", "2", "k">>,
       limit |-> 32768],
      [key |-> <<"g", "p", "t", "-", "4", "-", "t", "u", "r", "b", "o">>,
       limit |-> 128000],
      [key |-> <<"g", "p", "t", "-", "4", "o">>, limit |-> 128000],
      [key |-> <<"g", "p", "t", "-", "4", "o", "-", "m", "i", "n", "i">>,
       limit |-> 128000],
      [key |-> <<"g", "p", "t", "-", "3", ".", "5", "-", "t", "u", "r", "b",
                 "o">>, limit |-> 16385],
      [key |-> <<"c", "l", "a", "u", "d", "e", "-", "3", "-", "o", "p", "u",
                 "s">>, limit |-> 200000],
      [key |-> <<"c", "l", "a", "u", "d", "e", "-", "3", "-", "s", "o", "n",
                 "n", "e", "t">>, limit |-> 200000],
      [key |-> <<"c", "l", "a", "u", "d", "e", "-", "3", "-", "h", "a", "i",
                 "k", "u">>, limit |-> 200000],
      [key |-> <<"c", "l", "a", "u", "d", "e", "-", "3", ".", "5", "-", "s",
                 "o", "n", "n", "e", "t">>, limit |-> 200000],
      [key |-> <<"c", "l", "a", "u", "d", "e", "-", "2">>, limit |-> 100000],
      [key |-> <<"d", "e", "f", "a", "u", "l", "t">>, limit |-> 8192]>>

UpperCase ==
    <<"A", "B", "C", "D", "E", "F", "G", "H", "I", "J", "K", "L", "M", "N",
      "O", "P", "Q", "R", "S", "T", "U", "V", "W", "X", "Y", "Z">>

LowerCase ==
    <<"a", "b", "c", "d", "e", "f", "g", "h", "i", "j", "k", "l", "m", "n",
      "o", "p", "q", "r", "s", "t", "u", "v", "w", "x", "y", "z">>

\* model.lower()
lower(model) ==
    [i \in 1..Len(model) |->
        IF \E j \in 1..Len(UpperCase) : UpperCase[j] = model[i]
        THEN LowerCase[CHOOSE j \in 1..Len(UpperCase) : UpperCase[j] = model[i]]
        ELSE model[i]]

\* sub in s
IsSubstring(sub, s) ==
    \E i \in 0..(Len(s) - Len(sub)) : SubSeq(s, i + 1, i + Len(sub)) = sub

\* MODEL_LIMITS[key]
LimitOf(key) ==
    MODEL_LIMITS[CHOOSE i \in 1..Len(MODEL_LIMITS) :
                    MODEL_LIMITS[i].key = key].limit

\* for key, limit in MODEL_LIMITS.items(): the first fuzzy match from
\* entry i on, or the default.
RECURSIVE fuzzy_match(_, _)
fuzzy_match(model_lower, i) ==
    IF i > Len(MODEL_LIMITS) THEN LimitOf(<<"d", "e", "f", "a", "u", "l", "t">>)
    ELSE IF \/ IsSubstring(MODEL_LIMITS[i].key, model_lower)
            \/ IsSubstring(model_lower, MODEL_LIMITS[i].key)
         THEN MODEL_LIMITS[i].limit
         ELSE fuzzy_match(model_lower, i + 1)

get_model_limit_fuzzy_first(model) == fuzzy_match(lower(model), 1)

get_model_limit(model) ==
    LET model_lower == lower(model)
    IN  IF \E i \in 1..Len(MODEL_LIMITS) : MODEL_LIMITS[i].key = model_lower
        THEN LimitOf(model_lower)
        ELSE fuzzy_match(model_lower, 1)

(************************* analyzer.py: estimates *************************)
type_estimates ==
    [string |-> 50, integer |-> 2, float |-> 3, boolean |-> 1, list |-> 100,
     object |-> 150]

LargeHints == {"long", "large", "full", "complete", "code", "content"}
SmallHints == {"short", "brief", "single"}

estimate_variable_tokens_default_first(self, cls, var_config, sample_values) ==
    IF var_config.default # PyNone
    THEN count_tokens(self, cls, PyStrOf(var_config.default))
    ELSE IF var_config.name \in DOMAIN sample_values
    THEN count_tokens(self, cls, PyStrOf(sample_values[var_config.name]))
    ELSE LET base == IF var_config.type \in DOMAIN type_estimates
                     THEN type_estimates[var_config.type] ELSE 50
             desc_lower == LowerStr(Chars(var_config.description))
         IN  IF desc_lower # <<>> /\ Contains(desc_lower, LargeHints)
             THEN base * 5
             ELSE IF desc_lower # <<>> /\ Contains(desc_lower, SmallHints)
             THEN base \div 2
             ELSE base

\* TokenCounter.estimate_variable_tokens; sample_values is a dict, the
\* empty one standing for None as well.
estimate_variable_tokens(self, cls, var_config, sample_values) ==
    IF var_config.name \in DOMAIN sample_values
    THEN count_tokens(self, cls, PyStrOf(sample_values[var_config.name]))
    ELSE IF var_config.default # PyNone
    THEN count_tokens(self, cls, PyStrOf(var_config.default))
    ELSE LET base == IF var_config.type \in DOMAIN type_estimates
                     THEN type_estimates[var_config.type] ELSE 50
             desc_lower == LowerStr(Chars(var_config.description))
         IN  IF desc_lower # <<>> /\ Contains(desc_lower, LargeHints)
             THEN base * 5
             ELSE IF desc_lower # <<>> /\ Contains(desc_lower, SmallHints)
             THEN base \div 2
             ELSE base

\* The keys of a dict filled in a loop over the declarations, in insertion
\* order, and the declaration whose entry is the one kept.
RECURSIVE FirstNames(_, _)
FirstNames(variables, seen) ==
    IF variables = <<>> THEN <<>>
    ELSE IF Head(variables).name \in seen
         THEN FirstNames(Tail(variables), seen)
         ELSE <<Head(variables).name>> \o
              FirstNames(Tail(variables), seen \cup {Head(variables).name})

LastDeclared(variables, name) ==
    variables[CHOOSE i \in 1..Len(variables) :
                /\ variables[i].name = name
                /\ \A j \in (i + 1)..Len(variables) : variables[j].name # name]

\* sum(d.values())
RECURSIVE SumValues(_)
SumValues(d) ==
    IF DOMAIN d = {} THEN 0
    ELSE LET k == CHOOSE k \in DOMAIN d : TRUE
         IN  d[k] + SumValues([n \in DOMAIN d \ {k} |-> d[n]])

\* int | None
NoTokens == <<>>
OrZero(tokens) == IF tokens = <<>> THEN 0 ELSE tokens[1]

\* `if config.<field>:` for a str | None field
Truthy(field) == ~field.none /\ Chars(field.text) # <<>>

\* TemplateAnalyzer._estimate_tokens
TemplateAnalyzer_estimate_tokens(self, cls, cfg, sample_values) ==
    LET system_tokens ==
            IF Truthy(cfg.system_prompt)
            THEN <<count_tokens(self, cls, Chars(cfg.system_prompt.text))>>
            ELSE NoTokens
        user_tokens ==
            IF Truthy(cfg.user_prompt)
            THEN <<count_tokens(self, cls, Chars(cfg.user_prompt.text))>>
            ELSE NoTokens
        template_tokens ==
            IF Chars(cfg.template) # <<>>
            THEN count_tokens(self, cls, Chars(cfg.template)) ELSE 0
        var_tokens ==
            [n \in {cfg.variables[i].name : i \in 1..Len(cfg.variables)}
                |-> estimate_variable_tokens(
                        self, cls, LastDeclared(cfg.variables, n),
                        sample_values)]
        total_static ==
            OrZero(system_tokens) + OrZero(user_tokens) + template_tokens
        placeholder_tokens == Len(cfg.variables) * 2
        estimated_total ==
            total_static - placeholder_tokens + SumValues(var_tokens)
    IN  [template_tokens |-> template_tokens,
         system_prompt_tokens |-> system_tokens,
         user_prompt_tokens |-> user_tokens,
         estimated_variable_tokens |-> var_tokens,
         total_static_tokens |-> total_static,
         estimated_total |-> Max(0, estimated_total),
         model_fit |-> <<>>]

\* (config.system_prompt or "") + (config.user_prompt or "")
\* + (config.template or "")
all_content_of(cfg) ==
    OrEmpty(cfg.system_prompt) \o OrEmpty(cfg.user_prompt)
    \o Chars(cfg.template)

\* TemplateAnalyzer._analyze_variables: the dict, as the list of its values
\* in insertion order.
_analyze_variables(self, cls, cfg, sample_values) ==
    LET all_content == all_content_of(cfg)
        system_content == OrEmpty(cfg.system_prompt)
        user_content == OrEmpty(cfg.user_prompt)
        names == FirstNames(cfg.variables, {})
        analysis(var) ==
            [name |-> var.name,
             type |-> var.type,
             estimated_tokens |->
                estimate_variable_tokens(self, cls, var, sample_values),
             usage_count |-> FindAll(UsagePattern(var.name), all_content),
             in_system_prompt |-> Search(UsagePattern(var.name), system_content),
             in_user_prompt |-> Search(UsagePattern(var.name), user_content),
             description_quality |->
                IF Chars(var.description) = <<>> THEN "missing"
                ELSE IF StrLen(Chars(var.description)) > 20 THEN "good"
                ELSE "minimal"]
    IN  [i \in 1..Len(names) |->
            analysis(LastDeclared(cfg.variables, names[i]))]

\* TemplateAnalyzer._calculate_nesting_depth
_calculate_nesting_depth(content) ==
    MaxDepth(BlockTags(content, 1,
                       {"if", "for", "block", "elif", "else", "endif",
                        "endfor", "endblock"}),
             1, 0, 0, {"if", "for", "block"},
             {"endif", "endfor", "endblock"})

\* TemplateAnalyzer._analyze_structure
_analyze_structure(cfg) ==
    LET all_content == all_content_of(cfg)
    IN  [has_system_prompt |-> Truthy(cfg.system_prompt),
         has_user_prompt |-> Truthy(cfg.user_prompt),
         has_template |-> Chars(cfg.template) # <<>>,
         uses_conditionals |->
            Search(<<Lit({"{%"}), Ws0, Lit({"if", "elif", "else"})>>,
                   all_content),
         uses_loops |->
            Search(<<Lit({"{%"}), Ws0, Lit({"for"}), Ws1>>, all_content),
         nesting_depth |-> _calculate_nesting_depth(all_content),
         section_count |->
            MarkdownHeaders(all_content) + XmlTags(all_content)
            + SectionMarkers(all_content)]

\* TemplateAnalyzer._check_model_fit: the dict model -> fits.  The
\* comparison tokens < limit * 0.75 is exact in floating point.
_check_model_fit_inclusive(tokens, models) ==
    [model \in Range(models) |-> 4 * tokens <= 3 * get_model_limit(model)]

_check_model_fit(tokens, models) ==
    [model \in Range(models) |-> 4 * tokens < 3 * get_model_limit(model)]

Recommendation(code, name, n) == [code |-> code, name |-> name, n |-> n]

When(cond, items) == IF cond THEN items ELSE <<>>

RECURSIVE rule_recommendations(_, _, _)
rule_recommendations(variables, i, rule) ==
    IF i > Len(variables) THEN <<>>
    ELSE When(rule = "lacks_description"
                 /\ variables[i].description_quality = "missing",
              <<Recommendation("lacks_description", variables[i].name, 0)>>)
         \o When(rule = "repetition" /\ variables[i].usage_count > 5,
                 <<Recommendation("repetition", variables[i].name,
                                  variables[i].usage_count)>>)
         \o rule_recommendations(variables, i + 1, rule)

variable_recommendations_by_rule(variables, i) ==
    rule_recommendations(variables, i, "lacks_description")
    \o rule_recommendations(variables, i, "repetition")

RECURSIVE variable_recommendations(_, _)
variable_recommendations(variables, i) ==
    IF i > Len(variables) THEN <<>>
    ELSE When(variables[i].description_quality = "missing",
              <<Recommendation("lacks_description", variables[i].name, 0)>>)
         \o When(variables[i].usage_count > 5,
                 <<Recommendation("repetition", variables[i].name,
                                  variables[i].usage_count)>>)
         \o variable_recommendations(variables, i + 1)

\* TemplateAnalyzer._generate_recommendations
_generate_recommendations(cfg, tokens, variables, structure) ==
    When(tokens.estimated_total > 10000,
         <<Recommendation("split_template", "", 0)>>)
    \o When(/\ ~structure.has_system_prompt /\ ~structure.has_user_prompt
            /\ structure.section_count = 0
            /\ tokens.total_static_tokens > 500,
            <<Recommendation("add_structure", "", 0)>>)
    \o When(structure.nesting_depth > 3,
            <<Recommendation("deep_nesting", "", structure.nesting_depth)>>)
    \o variable_recommendations(variables, 1)
    \o When(Chars(cfg.description) = <<>>,
            <<Recommendation("template_description", "", 0)>>)

DefaultModels ==
    <<MODEL_LIMITS[1].key, MODEL_LIMITS[3].key, MODEL_LIMITS[8].key>>

\* TemplateAnalyzer.analyze; target_models is a list, the empty one
\* standing for None as well.
analyze(self, cls, cfg, sample_values, target_models) ==
    LET token_estimate ==
            TemplateAnalyzer_estimate_tokens(self, cls, cfg, sample_values)
        variable_analysis ==
            _analyze_variables(self, cls, cfg, sample_values)
        structural_analysis == _analyze_structure(cfg)
        models_to_check ==
            IF target_models # <<>> THEN target_models ELSE DefaultModels
        fit == _check_model_fit(token_estimate.estimated_total, models_to_check)
    IN  [template_name |-> cfg.name,
         token_estimate |-> [token_estimate EXCEPT !.model_fit = fit],
         variable_analysis |-> variable_analysis,
         structural_analysis |-> structural_analysis,
         recommendations |->
            _generate_recommendations(
                cfg, [token_estimate EXCEPT !.model_fit = fit],
                variable_analysis, structural_analysis)]

(************************* quality.py: QualityScorer **********************)
\* The weights of the dimensions, in hundredths.
DIMENSION_WEIGHTS ==
    [clarity |-> 25, consistency |-> 20, completeness |-> 25,
     efficiency |-> 15, structure |-> 15]

GRADE_THRESHOLDS ==
    <<[threshold |-> 90, grade |-> "A"], [threshold |-> 80, grade |-> "B"],
      [threshold |-> 70, grade |-> "C"], [threshold |-> 60, grade |-> "D"],
      [threshold |-> 0, grade |-> "F"]>>

\* A detail or suggestion text: its wording, and the names and the number
\* formatted into it.
Note(code, names, n) == [code |-> code, names |-> names, n |-> n]

\* What one check of a dimension does: the change of the score, the
\* details and the suggestions appended.
Finding(delta, details, suggestions) ==
    [delta |-> delta, details |-> details, suggestions |-> suggestions]

NoFinding == Finding(0, <<>>, <<>>)

RECURSIVE TotalDelta(_)
TotalDelta(findings) ==
    IF findings = <<>> THEN 0
    ELSE Head(findings).delta + TotalDelta(Tail(findings))

RECURSIVE AllDetails(_)
AllDetails(findings) ==
    IF findings = <<>> THEN <<>>
    ELSE Head(findings).details \o AllDetails(Tail(findings))

RECURSIVE AllSuggestions(_)
AllSuggestions(findings) ==
    IF findings = <<>> THEN <<>>
    ELSE Head(findings).suggestions \o AllSuggestions(Tail(findings))

Min(a, b) == IF a <= b THEN a ELSE b

clamp_score_unfloored(score) == score

\* score=max(0, score)
clamp_score(score) == Max(0, score)

DimensionScore(dimension, score, findings) ==
    [dimension |-> dimension, score |-> score,
     weight |-> DIMENSION_WEIGHTS[dimension],
     details |-> AllDetails(findings),
     suggestions |-> AllSuggestions(findings)]

\* `if var.enum` / `not var.enum`
HasEnum(var) == var.enum.set /\ var.enum.items # <<>>

HasDescription(var) == Chars(var.description) # <<>>

role_patterns ==
    {<<ILit({"you"}), Sp, ILit({"are"})>>, <<ILit({"act"}), Sp, ILit({"as"})>>,
     <<ILit({"<role>"})>>, <<ILit({"<persona>"})>>}

task_patterns ==
    {<<ILit({"your"}), Sp, ILit({"task", "goal", "job"}), Sp, ILit({"is"})>>,
     <<ILit({"please"})>>, <<ILit({"<task>"})>>, <<ILit({"<instructions>"})>>}

output_patterns ==
    {<<ILit({"<output_format>"})>>, <<ILit({"respond"}), Sp, ILit({"in"})>>,
     <<ILit({"format"}), Sp, ILit({"your"})>>}

ambiguous_patterns ==
    <<<<Boundary, ILit({"maybe"}), Boundary>>,
      <<Boundary, ILit({"perhaps"}), Boundary>>,
      <<Boundary, ILit({"might"}), Sp, ILit({"want"}), Sp, ILit({"to"}),
        Boundary>>,
      <<Boundary, ILit({"could"}), Sp, ILit({"potentially"}), Boundary>>>>

RECURSIVE SumSeq(_)
SumSeq(q) == IF q = <<>> THEN 0 ELSE Head(q) + SumSeq(Tail(q))

\* QualityScorer._score_clarity
_score_clarity(cfg) ==
    LET all_content == all_content_of(cfg)
        vars_with_desc ==
            Cardinality({i \in 1..Len(cfg.variables) :
                            HasDescription(cfg.variables[i])})
        total_vars == Len(cfg.variables)
        ambiguous_count ==
            SumSeq([i \in 1..Len(ambiguous_patterns) |->
                        FindAll(ambiguous_patterns[i], all_content)])
        findings ==
            <<IF AnySearch(role_patterns, all_content)
              THEN Finding(0, <<Note("role_found", <<>>, 0)>>, <<>>)
              ELSE Finding(-15, <<Note("no_role", <<>>, 0)>>,
                           <<Note("add_role", <<>>, 0)>>),
              IF AnySearch(task_patterns, all_content)
              THEN Finding(0, <<Note("task_found", <<>>, 0)>>, <<>>)
              ELSE Finding(-15, <<Note("no_task", <<>>, 0)>>,
                           <<Note("add_task", <<>>, 0)>>),
              IF AnySearch(output_patterns, all_content)
              THEN Finding(0, <<Note("output_found", <<>>, 0)>>, <<>>)
              ELSE Finding(-10, <<Note("no_output", <<>>, 0)>>,
                           <<Note("add_output", <<>>, 0)>>),
              IF total_vars = 0 THEN NoFinding
              ELSE IF 2 * vars_with_desc < total_vars
              THEN Finding(-10, <<Note("few_described", <<>>, vars_with_desc)>>,
                           <<Note("describe_all", <<>>, 0)>>)
              ELSE Finding(0, <<Note("documented", <<>>, vars_with_desc)>>,
                           <<>>),
              IF ambiguous_count > 2
              THEN Finding(-10, <<Note("ambiguous", <<>>, ambiguous_count)>>,
                           <<Note("be_direct", <<>>, 0)>>)
              ELSE NoFinding>>
    IN  DimensionScore("clarity", clamp_score(100 + TotalDelta(findings)),
                       findings)

\* "_" in n, and re.search(r"[a-z][A-Z]", n), for the names declared.
HasUnderscore(name) == name \in {"user_name"}
HasCamelHump(name) == name \in {"userName"}

\* s.split(sep): the segments between the separators.
RECURSIVE Split(_, _, _)
Split(s, sep, segment) ==
    IF s = <<>> THEN <<segment>>
    ELSE IF Head(s) = sep THEN <<segment>> \o Split(Tail(s), sep, <<>>)
    ELSE Split(Tail(s), sep, Append(segment, Head(s)))

\* s.strip() of a str of the analysis modules.
RECURSIVE StripLeft(_)
StripLeft(s) == IF s # <<>> /\ IsSpace(Head(s)) THEN StripLeft(Tail(s)) ELSE s

RECURSIVE StripRight(_)
StripRight(s) ==
    IF s # <<>> /\ IsSpace(s[Len(s)])
    THEN StripRight(SubSeq(s, 1, Len(s) - 1)) ELSE s

StripWs(s) == StripRight(StripLeft(s))

\* {s.strip().lower() for s in text.split(".") if len(s.strip()) > 30}
Sentences(text) ==
    {LowerStr(StripWs(seg)) :
        seg \in {g \in Range(Split(text, ".", <<>>)) : StrLen(StripWs(g)) > 30}}

\* QualityScorer._score_consistency
_score_consistency(cfg) ==
    LET names == [i \in 1..Len(cfg.variables) |-> cfg.variables[i].name]
        snake_case ==
            Cardinality({i \in 1..Len(names) : HasUnderscore(names[i])})
        camel_case ==
            Cardinality({i \in 1..Len(names) : HasCamelHump(names[i])})
        both == Truthy(cfg.system_prompt) /\ Truthy(cfg.user_prompt)
        system == Chars(cfg.system_prompt.text)
        user == Chars(cfg.user_prompt.text)
        enum_types(var) ==
            IF /\ var.type = "string" /\ HasEnum(var)
               /\ \E i \in 1..Len(var.enum.items) :
                      ~isinstance(var.enum.items[i], {"str"})
            THEN Finding(-10, <<Note("enum_types", <<var.name>>, 0)>>, <<>>)
            ELSE NoFinding
        findings ==
            <<IF snake_case > 0 /\ camel_case > 0
              THEN Finding(-15, <<Note("mixed_naming", <<>>, 0)>>,
                           <<Note("one_convention", <<>>, 0)>>)
              ELSE IF names # <<>>
              THEN Finding(0, <<Note("consistent_naming", <<>>, 0)>>, <<>>)
              ELSE NoFinding>>
            \o [i \in 1..Len(cfg.variables) |-> enum_types(cfg.variables[i])]
            \o <<IF ~both THEN NoFinding
                 ELSE IF HasAngles(system) # HasAngles(user)
                 THEN Finding(-10, <<Note("mixed_formatting", <<>>, 0)>>,
                              <<Note("one_formatting", <<>>, 0)>>)
                 ELSE Finding(0, <<Note("consistent_formatting", <<>>, 0)>>,
                              <<>>),
                 IF both /\ Sentences(system) \cap Sentences(user) # {}
                 THEN Finding(-10, <<Note("duplicate_content", <<>>, 0)>>,
                              <<Note("remove_duplicates", <<>>, 0)>>)
                 ELSE NoFinding>>
    IN  DimensionScore("consistency", clamp_score(100 + TotalDelta(findings)),
                       findings)

constrained_names == {"style", "format", "type", "mode", "level"}

\* QualityScorer._score_completeness
_score_completeness(cfg) ==
    LET all_content == all_content_of(cfg)
        missing_desc_vars ==
            SelectSeq([i \in 1..Len(cfg.variables) |-> cfg.variables[i]],
                      LAMBDA var : ~HasDescription(var))
        missing_names ==
            [i \in 1..Min(3, Len(missing_desc_vars)) |->
                missing_desc_vars[i].name]
        vars_with_defaults ==
            Cardinality({i \in 1..Len(cfg.variables) :
                            cfg.variables[i].default # PyNone})
        optional_vars ==
            Cardinality({i \in 1..Len(cfg.variables) :
                            ~cfg.variables[i].required})
        has_structure ==
            \/ HasAngles(all_content)
            \/ Contains(all_content, {"##"})
            \/ Contains(all_content, {"==="})
        constrained(var) ==
            IF var.name \in constrained_names /\ ~HasEnum(var)
            THEN Finding(-5, <<>>, <<Note("add_enum", <<var.name>>, 0)>>)
            ELSE NoFinding
        findings ==
            <<IF Chars(cfg.description) = <<>>
              THEN Finding(-10, <<Note("no_description", <<>>, 0)>>,
                           <<Note("add_description", <<>>, 0)>>)
              ELSE IF StrLen(Chars(cfg.description)) < 20
              THEN Finding(-5, <<Note("brief_description", <<>>, 0)>>,
                           <<Note("expand_description", <<>>, 0)>>)
              ELSE Finding(0, <<Note("description_present", <<>>, 0)>>, <<>>),
              IF cfg.tags = <<>>
              THEN Finding(-5, <<Note("no_tags", <<>>, 0)>>,
                           <<Note("add_tags", <<>>, 0)>>)
              ELSE Finding(0, <<Note("tags", <<>>, Len(cfg.tags))>>, <<>>)>>
            \o [i \in 1..Len(cfg.variables) |-> constrained(cfg.variables[i])]
            \o <<IF missing_desc_vars # <<>>
                 THEN Finding(-Min(15, Len(missing_desc_vars) * 3),
                              <<Note("without_descriptions", missing_names,
                                     Len(missing_desc_vars))>>,
                              <<Note("describe_all", <<>>, 0)>>)
                 ELSE NoFinding,
                 IF optional_vars > 0 /\ vars_with_defaults = 0
                 THEN Finding(-5, <<Note("no_defaults", <<>>, 0)>>,
                              <<Note("add_defaults", <<>>, 0)>>)
                 ELSE NoFinding,
                 IF StrLen(all_content) > 500 /\ ~has_structure
                 THEN Finding(-10, <<Note("long_unstructured", <<>>, 0)>>,
                              <<Note("add_sections", <<>>, 0)>>)
                 ELSE NoFinding>>
    IN  DimensionScore("completeness", clamp_score(100 + TotalDelta(findings)),
                       findings)

\* s.split(): the maximal runs without whitespace, each the sequence of
\* its chunks.
RECURSIVE SplitWords(_, _)
SplitWords(s, word) ==
    IF s = <<>> THEN IF word = <<>> THEN <<>> ELSE <<word>>
    ELSE IF IsSpace(Head(s))
         THEN (IF word = <<>> THEN <<>> ELSE <<word>>)
              \o SplitWords(Tail(s), <<>>)
         ELSE SplitWords(Tail(s), Append(word, Head(s)))

\* The keys of a dict filled in a loop over q, in insertion order.
RECURSIVE Distinct(_, _)
Distinct(q, seen) ==
    IF q = <<>> THEN <<>>
    ELSE IF Head(q) \in seen THEN Distinct(Tail(q), seen)
         ELSE <<Head(q)>> \o Distinct(Tail(q), seen \cup {Head(q)})

Occurs(q, w) == Cardinality({i \in 1..Len(q) : q[i] = w})

\* sorted(pairs, key=lambda x: -x[1]): a stable sort, most frequent first.
RECURSIVE SortedByCount(_, _)
SortedByCount(keys, q) ==
    IF keys = <<>> THEN <<>>
    ELSE LET best == CHOOSE i \in 1..Len(keys) :
                        /\ \A j \in 1..Len(keys) :
                              Occurs(q, keys[j]) <= Occurs(q, keys[i])
                        /\ \A j \in 1..(i - 1) :
                              Occurs(q, keys[j]) < Occurs(q, keys[i])
         IN  <<keys[best]>>
             \o SortedByCount(SubSeq(keys, 1, best - 1)
                              \o SubSeq(keys, best + 1, Len(keys)), q)

\* The str of a word given by its chunks.
RECURSIVE WordOf(_)
WordOf(word) ==
    IF Len(word) = 1 THEN word[1] ELSE word[1] \o WordOf(Tail(word))

\* QualityScorer._score_efficiency
_score_efficiency(self, cls, cfg, sample_values) ==
    LET all_content == all_content_of(cfg)
        token_count == count_tokens(self, cls, all_content)
        words ==
            SelectSeq(SplitWords(LowerStr(all_content), <<>>),
                      LAMBDA word : StrLen(word) > 4)
        high_freq_words ==
            SelectSeq(Distinct(words, {}), LAMBDA w : Occurs(words, w) > 5)
        sorted == SortedByCount(high_freq_words, words)
        top_repeated ==
            [i \in 1..Min(3, Len(sorted)) |-> WordOf(sorted[i])]
        usage(var) ==
            LET usage_count == FindAll(UsagePattern(var.name), all_content)
            IN  IF usage_count > 5
                THEN Finding(-5, <<Note("used_often", <<var.name>>,
                                        usage_count)>>,
                             <<Note("repeated_variable", <<var.name>>,
                                    usage_count)>>)
                ELSE NoFinding
        jinja_blocks == FindAll(<<Lit({"{%"})>>, all_content)
        findings ==
            <<IF token_count > 10000
              THEN Finding(-30, <<Note("very_high_tokens", <<>>, token_count)>>,
                           <<Note("break_up", <<>>, 0)>>)
              ELSE IF token_count > 5000
              THEN Finding(-15, <<Note("high_tokens", <<>>, token_count)>>,
                           <<Note("review_content", <<>>, 0)>>)
              ELSE Finding(0, <<Note("tokens", <<>>, token_count)>>, <<>>),
              IF high_freq_words = <<>> THEN NoFinding
              ELSE IF \E i \in 1..Len(high_freq_words) :
                          Occurs(words, high_freq_words[i]) > 10
              THEN Finding(-10, <<Note("repeated_words", top_repeated, 0)>>,
                           <<Note("review_repetition", <<>>, 0)>>)
              ELSE Finding(0, <<Note("repeated_words", top_repeated, 0)>>,
                           <<>>)>>
            \o [i \in 1..Len(cfg.variables) |-> usage(cfg.variables[i])]
            \o <<IF jinja_blocks > 10
                 THEN Finding(-15, <<Note("jinja_complexity", <<>>,
                                          jinja_blocks)>>,
                              <<Note("simplify_logic", <<>>, 0)>>)
                 ELSE NoFinding>>
    IN  DimensionScore("efficiency", clamp_score(100 + TotalDelta(findings)),
                       findings)

split_adjustment_penalised(cfg) ==
    IF Truthy(cfg.system_prompt) /\ Truthy(cfg.user_prompt)
    THEN Finding(-5, <<Note("split", <<>>, 0)>>, <<>>)
    ELSE NoFinding

\* The system/user split check of _score_structure.
split_adjustment(cfg) ==
    IF Truthy(cfg.system_prompt) \/ Truthy(cfg.user_prompt)
    THEN IF Truthy(cfg.system_prompt) /\ Truthy(cfg.user_prompt)
         THEN Finding(5, <<Note("split", <<>>, 0)>>, <<>>)
         ELSE IF Truthy(cfg.system_prompt) /\ ~Truthy(cfg.user_prompt)
         THEN Finding(-10, <<Note("no_user_prompt", <<>>, 0)>>,
                      <<Note("add_user_prompt", <<>>, 0)>>)
         ELSE NoFinding
    ELSE IF Chars(cfg.template) # <<>>
    THEN Finding(0, <<Note("single_template", <<>>, 0)>>,
                 IF StrLen(Chars(cfg.template)) > 2000
                 THEN <<Note("consider_split", <<>>, 0)>> ELSE <<>>)
    ELSE NoFinding

RECURSIVE clamped_after_each(_, _)
clamped_after_each(score, findings) ==
    IF findings = <<>> THEN score
    ELSE clamped_after_each(Min(100, Max(0, score + Head(findings).delta)),
                            Tail(findings))

structure_score_clamped_early(findings) == clamped_after_each(100, findings)

\* score = 100, the adjustments in turn, then min(100, max(0, score)).
structure_score(findings) == Min(100, Max(0, 100 + TotalDelta(findings)))

\* QualityScorer._score_structure
_score_structure(cfg) ==
    LET all_content == all_content_of(cfg)
        total_structure ==
            XmlTags(all_content) + MarkdownHeaders(all_content)
            + SectionMarkers(all_content)
        max_depth ==
            MaxDepth(BlockTags(all_content, 1,
                               {"if", "for", "endif", "endfor"}),
                     1, 0, 0, {"if", "for"}, {"endif", "endfor"})
        findings ==
            <<split_adjustment(cfg),
              IF StrLen(all_content) <= 1000 THEN NoFinding
              ELSE IF total_structure < 3
              THEN Finding(-15, <<Note("minimal_structure", <<>>, 0)>>,
                           <<Note("add_headers", <<>>, 0)>>)
              ELSE Finding(0, <<Note("good_structure", <<>>, total_structure)>>,
                           <<>>),
              IF max_depth > 3
              THEN Finding(-15, <<Note("deep_nesting", <<>>, max_depth)>>,
                           <<Note("reduce_nesting", <<>>, 0)>>)
              ELSE IF max_depth > 0
              THEN Finding(0, <<Note("nesting", <<>>, max_depth)>>, <<>>)
              ELSE NoFinding>>
    IN  DimensionScore("structure", structure_score(findings), findings)

\* QualityScorer._generate_summary: the wording for the grade.
_generate_summary(overall_score, grade) ==
    CASE grade = "A" -> "excellent"
      [] grade = "B" -> "good"
      [] grade = "C" -> "acceptable"
      [] grade = "D" -> "below_average"
      [] OTHER -> "poor"

\* The grade of the first threshold reached, from entry i on.
RECURSIVE grade_for(_, _)
grade_for(overall_score, i) ==
    IF i > Len(GRADE_THRESHOLDS) THEN "F"
    ELSE IF overall_score >= GRADE_THRESHOLDS[i].threshold
         THEN GRADE_THRESHOLDS[i].grade
         ELSE grade_for(overall_score, i + 1)

\* QualityScorer.score
score(self, cls, cfg, sample_values) ==
    LET QualityReport_of(dimensions, overall_score, grade, deduplicated) ==
            [template_name |-> cfg.name,
             overall_score |-> overall_score,
             grade |-> grade,
             dimensions |-> dimensions,
             summary |-> _generate_summary(overall_score, grade),
             top_suggestions |->
                SubSeq(deduplicated, 1, Min(5, Len(deduplicated)))]
        graded(dimensions, overall_score) ==
            QualityReport_of(dimensions, overall_score,
                             grade_for(overall_score, 1),
                             Distinct(AllSuggestions(dimensions), {}))
        weighted(dimensions) ==
            graded(dimensions,
                   SumSeq([i \in 1..Len(dimensions) |->
                            dimensions[i].score * dimensions[i].weight])
                       \div 100)
    IN  weighted(<<_score_clarity(cfg), _score_consistency(cfg),
                   _score_completeness(cfg),
                   _score_efficiency(self, cls, cfg, sample_values),
                   _score_structure(cfg)>>)

is_production_ready_from_60(self) == self.overall_score >= 60

\* QualityReport.is_production_ready
is_production_ready(self) == self.overall_score >= 70

(************************* semantic.py ************************************)
\* An optional str: None, or the str held.
NoSuggestion == <<>>
Suggestion(text) == <<text>>

SemanticIssue(type, severity, message, location, suggestion) ==
    [type |-> type, severity |-> severity, message |-> message,
     location |-> location, suggestion |-> suggestion]

\* SemanticValidationResult()
SemanticValidationResult ==
    [is_valid |-> TRUE, issues |-> <<>>,
     role_clarity_score |-> 100, instruction_clarity_score |-> 100,
     context_coherence_score |-> 100, task_alignment_score |-> 100]

add_issue_invalid_on_warning(self, issue) ==
    [self EXCEPT !.issues = Append(@, issue),
                 !.is_valid = IF issue.severity \in {"error", "warning"}
                              THEN FALSE ELSE @]

\* SemanticValidationResult.add_issue
add_issue(self, issue) ==
    [self EXCEPT !.issues = Append(@, issue),
                 !.is_valid = IF issue.severity = "error" THEN FALSE ELSE @]

\* f"[Semantic] {issue.message}", then " (Suggestion: ...)" for a
\* suggestion that is neither None nor "".
semantic_message(issue) ==
    "[Semantic] " \o issue.message
    \o (IF issue.suggestion # NoSuggestion /\ issue.suggestion # Suggestion("")
        THEN " (Suggestion: " \o issue.suggestion[1] \o ")"
        ELSE "")

RECURSIVE route_issues(_, _)
route_issues(result, issues) ==
    IF issues = <<>> THEN result
    ELSE LET issue == Head(issues)
             msg == semantic_message(issue)
         IN  route_issues(IF issue.severity = "error"
                          THEN add_error(result, msg)
                          ELSE add_warning(result, msg),
                          Tail(issues))

\* SemanticValidationResult.to_validation_result
to_validation_result(self) ==
    route_issues(ValidationResult(self.is_valid), self.issues)

Article == ILit({"a", "an", "the"})

ROLE_PATTERNS ==
    {<<ILit({"you"}), Sp, ILit({"are"}), Ws1, Article, Ws1>>,
     <<ILit({"act"}), Sp, ILit({"as"}), Ws1, Article, Ws1>>,
     <<ILit({"<role>"})>>,
     <<ILit({"<persona>"})>>,
     <<ILit({"your"}), Sp, ILit({"role"}), Sp, ILit({"is"})>>,
     <<ILit({"you"}), Sp, ILit({"will"}), Sp, ILit({"be"}), Ws1, Article,
       Ws1>>,
     <<ILit({"as"}), Ws1, ILit({"a", "an"}), Ws1, WordChars, Ws1,
       ILit({"you"})>>,
     <<ILit({"as"}), Ws1, ILit({"a", "an"}), Ws1, WordChars, Lit({","}), Ws1,
       ILit({"you"})>>}

TASK_PATTERNS ==
    {<<ILit({"your"}), Sp, ILit({"task", "job", "goal", "objective"}), Sp,
       ILit({"is"})>>,
     <<ILit({"you"}), Sp, ILit({"should", "must", "will"})>>,
     <<ILit({"you"}), Sp, ILit({"need"}), Sp, ILit({"to"})>>,
     <<ILit({"please"}), Ws1, WordChars>>,
     <<ILit({"<task>"})>>,
     <<ILit({"<instructions>"})>>,
     <<ILit({"i"}), Sp, ILit({"want"}), Sp, ILit({"you"}), Sp, ILit({"to"})>>,
     <<ILit({"i"}), Sp, ILit({"need"}), Sp, ILit({"you"}), Sp, ILit({"to"})>>}

Reply == ILit({"response", "answer", "output"})

OUTPUT_PATTERNS ==
    {<<ILit({"<output_format>"})>>,
     <<ILit({"<output>"})>>,
     <<ILit({"respond"}), Sp, ILit({"in"}), Sp, ILit({"this"}), Sp,
       ILit({"format"})>>,
     <<ILit({"respond"}), Sp, ILit({"in"}), Sp, ILit({"the"}), Sp,
       ILit({"following"}), Sp, ILit({"format"})>>,
     <<ILit({"format"}), Sp, ILit({"your"}), Sp, Reply>>,
     <<ILit({"your"}), Sp, Reply, Sp, ILit({"should"})>>,
     <<ILit({"use"}), Sp, ILit({"this"}), Sp, ILit({"format", "structure"})>>,
     <<ILit({"use"}), Sp, ILit({"the"}), Sp, ILit({"following"}), Sp,
       ILit({"format", "structure"})>>,
     <<ILit({"return"}), Sp, ILit({"the"}), Sp, ILit({"result"}), Sp,
       ILit({"as", "in"})>>,
     <<ILit({"return"}), Sp, ILit({"your"}), Sp, ILit({"answer"}), Sp,
       ILit({"as", "in"})>>}

AMBIGUOUS_PATTERNS ==
    <<<<Boundary, ILit({"maybe"}), Boundary>>,
      <<Boundary, ILit({"perhaps"}), Boundary>>,
      <<Boundary, ILit({"might"}), Sp, ILit({"want"}), Sp, ILit({"to"}),
        Boundary>>,
      <<Boundary, ILit({"could"}), Sp, ILit({"potentially"}), Boundary>>,
      <<Boundary, ILit({"possibly"}), Boundary>>,
      <<Boundary, ILit({"if"}), Sp, ILit({"you"}), Sp, ILit({"want"}),
        Boundary>>>>

\* SemanticValidator._check_role_definition
_check_role_definition(cfg, result) ==
    LET system_content == OrEmpty(cfg.system_prompt)
        user_content == OrEmpty(cfg.user_prompt)
        template_content == Chars(cfg.template)
        has_role_in_system == AnySearch(ROLE_PATTERNS, system_content)
        has_role_in_user == AnySearch(ROLE_PATTERNS, user_content)
        has_role_in_template == AnySearch(ROLE_PATTERNS, template_content)
        has_role == has_role_in_system \/ has_role_in_template
        scored ==
            IF has_role THEN [result EXCEPT !.role_clarity_score = 100]
            ELSE add_issue(
                    [result EXCEPT !.role_clarity_score = 60],
                    SemanticIssue("role_confusion", "info",
                        "No clear role definition found in the prompt",
                        IF Truthy(cfg.system_prompt)
                        THEN "system_prompt" ELSE "template",
                        Suggestion("Add 'You are a [role]' to establish context")))
    IN  IF has_role_in_user /\ Truthy(cfg.system_prompt)
        THEN add_issue(
                [scored EXCEPT !.role_clarity_score = @ - 20],
                SemanticIssue("role_confusion", "warning",
                    "Role definition found in user_prompt, not system_prompt",
                    "user_prompt",
                    Suggestion("Move role definition to system_prompt")))
        ELSE scored

\* sum(len(p.findall(all_content)) for p in self._ambiguous_regex)
ambiguous_count_of(all_content) ==
    SumSeq([k \in 1..Len(AMBIGUOUS_PATTERNS) |->
                FindAll(AMBIGUOUS_PATTERNS[k], all_content)])

\* SemanticValidator._check_instruction_clarity
_check_instruction_clarity(cfg, result) ==
    LET all_content == all_content_of(cfg)
        has_task == AnySearch(TASK_PATTERNS, all_content)
        has_output_format == AnySearch(OUTPUT_PATTERNS, all_content)
        ambiguous_count == ambiguous_count_of(all_content)
        no_task ==
            IF ~has_task
            THEN add_issue(result,
                    SemanticIssue("instruction_clarity", "info",
                        "No clear task instructions found", "template",
                        Suggestion("Add 'Your task is to...' or 'Please...'")))
            ELSE result
        no_output ==
            IF ~has_output_format
            THEN add_issue(no_task,
                    SemanticIssue("instruction_clarity", "info",
                        "No output format specification found",
                        IF Truthy(cfg.user_prompt)
                        THEN "user_prompt" ELSE "template",
                        Suggestion("Consider specifying expected output format")))
            ELSE no_task
        ambiguous ==
            IF ambiguous_count > 2
            THEN add_issue(no_output,
                    SemanticIssue("instruction_clarity", "info",
                        "Found " \o ToString(ambiguous_count)
                            \o " ambiguous phrases",
                        "template",
                        Suggestion("Replace ambiguous language with direct instructions")))
            ELSE no_output
        clarity == 100 - (IF ~has_task THEN 25 ELSE 0)
                       - (IF ~has_output_format THEN 15 ELSE 0)
                       - (IF ambiguous_count > 2 THEN 10 ELSE 0)
    IN  [ambiguous EXCEPT !.instruction_clarity_score = Max(0, clarity)]

\* {s.strip() for s in text.lower().split(".") if len(s.strip()) > 30}
LongSentences(text) ==
    {StripWs(seg) :
        seg \in {g \in Range(Split(LowerStr(text), ".", <<>>)) :
                    StrLen(StripWs(g)) > 30}}

\* SemanticValidator._check_context_coherence
_check_context_coherence(cfg, result) ==
    LET duplicated ==
            /\ Truthy(cfg.system_prompt)
            /\ Truthy(cfg.user_prompt)
            /\ LongSentences(OrEmpty(cfg.system_prompt))
                  \cap LongSentences(OrEmpty(cfg.user_prompt)) # {}
        reported ==
            IF duplicated
            THEN add_issue(result,
                    SemanticIssue("context_coherence", "info",
                        "Content duplication between prompts", "user_prompt",
                        Suggestion("Review and deduplicate repeated content")))
            ELSE result
    IN  [reported EXCEPT !.context_coherence_score =
                            Max(0, 100 - (IF duplicated THEN 15 ELSE 0))]

\* A chunk made of the letters a-z only.
IsLetters(p) == IsWord(p) /\ ~HasUnderscore(p) /\ Lower(p) = p

\* set(re.findall(r"\b[a-z]{4,}\b", s)) for a lowered s
key_terms_of(s) ==
    {s[i] : i \in {j \in 1..Len(s) :
        /\ IsLetters(s[j]) /\ PieceLen(s[j]) >= 4
        /\ ~WordAt(s, j - 1) /\ ~WordAt(s, j + 1)}}

\* SemanticValidator._check_task_alignment
_check_task_alignment(cfg, result) ==
    LET desc_lower == LowerStr(cfg.description)
        content_lower == LowerStr(all_content_of(cfg))
        key_terms == key_terms_of(desc_lower)
        content_terms == key_terms_of(content_lower)
        overlap == key_terms \cap content_terms
        \* len(overlap) / len(key_terms) < 0.3
        misaligned ==
            /\ desc_lower # <<>>
            /\ key_terms # {}
            /\ 10 * Cardinality(overlap) < 3 * Cardinality(key_terms)
        reported ==
            IF misaligned
            THEN add_issue(result,
                    SemanticIssue("task_alignment", "info",
                        "Description may not align with template content",
                        "description",
                        Suggestion("Update description to reflect functionality")))
            ELSE IF desc_lower = <<>>
            THEN add_issue(result,
                    SemanticIssue("task_alignment", "info",
                        "Template lacks a description", "description",
                        Suggestion("Add a description to clarify the template's purpose")))
            ELSE result
        alignment == 100 - (IF misaligned THEN 20 ELSE 0)
                         - (IF desc_lower = <<>> THEN 10 ELSE 0)
    IN  [reported EXCEPT !.task_alignment_score = Max(0, alignment)]

\* set(re.findall(r"\{\{\s*(\w+)\s*\}\}", s)): the names that are one chunk.
var_usages_of(s) ==
    {s[SkipSpaces(s, i + 1)] : i \in {j \in 1..Len(s) :
        /\ s[j] = "{{"
        /\ LET n == SkipSpaces(s, j + 1)
               c == SkipSpaces(s, n + 1)
           IN  WordAt(s, n) /\ c <= Len(s) /\ s[c] = "}}"}}

\* The number of characters before chunk i of s.
Offset(s, i) == StrLen(SubSeq(s, 1, i - 1))

\* s[a:b].strip() == ""
BlankBetween(s, a, b) ==
    \A q \in 1..Len(s) :
        (Offset(s, q) < b /\ Offset(s, q) + PieceLen(s[q]) > a)
            => IsSpace(s[q])

\* Whether one of the matches of
\* r".{0,20}\{\{\s*NAME\s*\}\}.{0,20}" (re.DOTALL) found from pos on is,
\* stripped, the placeholder alone.  A match starts at the first offset
\* with a usage at most 20 characters later, takes the last usage that
\* starts within 20 characters, and up to 20 characters after it; the
\* search goes on where the match ended.
RECURSIVE standalone_from(_, _, _)
standalone_from(s, var_name, pos) ==
    LET usages ==
            {i \in 1..Len(s) :
                /\ MatchAt(UsagePattern(var_name), 1, s, i) # 0
                /\ Offset(s, i) >= pos}
    IN  IF usages = {} THEN FALSE
        ELSE LET first == CHOOSE i \in usages : \A j \in usages : i <= j
                 start == Max(pos, Offset(s, first) - 20)
                 inside == {i \in usages : Offset(s, i) <= start + 20}
                 taken == CHOOSE i \in inside : \A j \in inside : j <= i
                 close == Offset(s, MatchAt(UsagePattern(var_name), 1, s,
                                            taken))
                 end == Min(StrLen(s), close + 20)
             IN  \/ /\ BlankBetween(s, start, Offset(s, taken))
                    /\ BlankBetween(s, close, end)
                 \/ standalone_from(s, var_name, end)

\* SemanticValidator._check_placeholder_quality; order is the order in
\* which set(var_usages) is iterated.
RECURSIVE _check_placeholder_quality(_, _, _)
_check_placeholder_quality(cfg, result, order) ==
    IF order = <<>> THEN result
    ELSE LET var_name == Head(order)
             all_content == all_content_of(cfg)
             reported ==
                IF /\ get_variable(cfg, var_name) # <<>>
                   /\ standalone_from(all_content, var_name, 0)
                THEN add_issue(result,
                        SemanticIssue("placeholder_quality", "info",
                            "Variable '" \o var_name
                                \o "' appears without context",
                            "template",
                            Suggestion("Add context like '" \o var_name
                                \o ": {{ " \o var_name \o " }}'")))
                ELSE result
         IN  _check_placeholder_quality(cfg, reported, Tail(order))

\* SemanticValidator._check_prompt_structure
_check_prompt_structure(cfg, result) ==
    LET all_content == all_content_of(cfg)
        system_only ==
            IF Truthy(cfg.system_prompt) /\ ~Truthy(cfg.user_prompt)
            THEN add_issue(result,
                    SemanticIssue("prompt_structure", "info",
                        "system_prompt defined but user_prompt is empty",
                        "user_prompt",
                        Suggestion("Add user_prompt for complete chat structure")))
            ELSE result
        has_structure ==
            \/ HasAngles(all_content)
            \/ Contains(all_content, {"##", "==="})
    IN  IF /\ StrLen(all_content) > 3000
           /\ ~Truthy(cfg.system_prompt)
           /\ ~has_structure
        THEN add_issue(system_only,
                SemanticIssue("prompt_structure", "info",
                    "Long template without clear structure", "template",
                    Suggestion("Split into system/user prompts or add sections")))
        ELSE system_only

\* The orders in which a set of strs can be iterated.
IterationOrders(S) ==
    {q \in SeqsUpTo(S, Cardinality(S)) :
        Len(q) = Cardinality(S) /\ Range(q) = S}

\* SemanticValidator.validate
semantic_validate(cfg, order) ==
    _check_prompt_structure(cfg,
        _check_placeholder_quality(cfg,
            _check_task_alignment(cfg,
                _check_context_coherence(cfg,
                    _check_instruction_clarity(cfg,
                        _check_role_definition(cfg,
                            SemanticValidationResult)))),
            order))

(************************* analyzer.py: the nesting-depth loop ************)
\* The keywords of the pattern of _calculate_nesting_depth.
DepthKeywords ==
    {"if", "for", "block", "elif", "else", "endif", "endfor", "endblock"}

depth_step_unfloored(self, tag) ==
    IF tag \in {"if", "for", "block"}
    THEN [self EXCEPT !.current_depth = @ + 1,
                      !.max_depth = Max(@, self.current_depth + 1)]
    ELSE IF tag \in {"endif", "endfor", "endblock"}
    THEN [self EXCEPT !.current_depth = @ - 1]
    ELSE self

\* The body of the loop of _calculate_nesting_depth, for one match.
depth_step(self, tag) ==
    IF tag \in {"if", "for", "block"}
    THEN [self EXCEPT !.current_depth = @ + 1,
                      !.max_depth = Max(@, self.current_depth + 1)]
    ELSE IF tag \in {"endif", "endfor", "endblock"}
    THEN [self EXCEPT !.current_depth = Max(0, @ - 1)]
    ELSE self

(************************* cli.py *****************************************)
\* The attributes of a Template object: those __init__ sets and those the
\* class defines.  The class has no __getattr__.
TemplateAttributes ==
    {"config", "_renderer", "_validator", "from_file", "from_string",
     "from_dict", "name", "description", "variables", "template_content",
     "validate", "render", "_apply_defaults", "preview",
     "get_required_variables", "get_all_variables", "to_dict", "__repr__"}

\* The exceptions `except TemplateError` catches.
TemplateErrors ==
    {"TemplateError", "TemplateNotFoundError", "TemplateValidationError",
     "TemplateRenderError"}

RunOutcome(result, system_rendered, user_rendered) ==
    [kind |-> "return", exc |-> "", text |-> result, errors |-> <<>>,
     res |-> NoResult, system_rendered |-> system_rendered,
     user_rendered |-> user_rendered]

\* template.<name>: an attribute the object does not have raises.
Template_getattr(name) ==
    IF name \in TemplateAttributes THEN Return(<<>>)
    ELSE Raise("AttributeError", <<Msg("no_attribute", name)>>)

\* handle_template_error(e): prints the error, then raise SystemExit(1).
handle_template_error(e) == Raise("SystemExit", e.errors)

\* The `try` of run_template: render, then the split prompts "if available".
\* A TemplateError is handled; any other exception leaves the command.
run_template(cfg, variables) ==
    LET result == Template_render(cfg, variables)
        has_split_prompts == Template_getattr("has_split_prompts")
        render_split == Template_getattr("render_split")
    IN  IF result.kind = "raise"
        THEN IF result.exc \in TemplateErrors
             THEN handle_template_error(result)
             ELSE result
        ELSE IF has_split_prompts.kind = "raise" THEN has_split_prompts
        ELSE IF render_split.kind = "raise" THEN render_split
        ELSE RunOutcome(result.text, NoneText, NoneText)

(************************* inputs *****************************************)
BodyTokens == {"x", "{{", "}}", Placeholder("x"), Placeholder("y")}

Bodies == SeqsUpTo(BodyTokens, MaxBody)

Name_t == <<"a">>

Vx_req == VariableConfig("x", "string", TRUE, PyNone, NoEnum)
Vx_opt == VariableConfig("x", "string", FALSE, PyNone, NoEnum)
Vx_enum == VariableConfig("x", "string", FALSE, PyStr("a"),
                          Enum(<<PyStr("a"), PyStr("b")>>))
Vx_int == VariableConfig("x", "integer", TRUE, PyNone, NoEnum)
Vy_req == VariableConfig("y", "string", TRUE, PyNone, NoEnum)
Vy_def == VariableConfig("y", "string", FALSE, PyStr("b"), NoEnum)

RenderVarLists ==
    {<<>>, <<Vx_req>>, <<Vx_opt>>, <<Vx_enum>>, <<Vx_int>>,
     <<Vx_req, Vy_def>>, <<Vx_enum, Vy_req>>}

RenderData ==
    {TemplateConfig(Name_t, b, NoneText, NoneText, vs) :
        b \in Bodies, vs \in RenderVarLists}

\* The keyword arguments of render and preview.
Bindings ==
    UNION {[D -> {PyStr("a"), PyStr("c"), PyInt(1)}] : D \in SUBSET {"x"}}
    \cup {[n \in D \cup {"y"} |-> IF n = "y" THEN PyStr("a") ELSE f[n]] :
            <<D, f>> \in UNION {{<<D, f>> : f \in [D -> {PyStr("a"), PyStr("c"),
                                                       PyInt(1)}]} :
                                 D \in SUBSET {"x"}}}

ValDecls ==
    {VariableConfig("x", "string", TRUE, PyNone, NoEnum),
     VariableConfig("x", "integer", TRUE, PyStr("a"), NoEnum),
     VariableConfig("x", "string", TRUE, PyStr("a"), Enum(<<PyStr("a")>>)),
     VariableConfig("x", "string", TRUE, PyStr("a"), Enum(<<PyStr("b")>>)),
     VariableConfig("x", "string", TRUE, PyStr("a"), Enum(<<>>)),
     VariableConfig("y", "string", TRUE, PyNone, NoEnum)}

ValidateData ==
    {TemplateConfig(Name_t, b, NoneText, NoneText, vs) :
        b \in SeqsUpTo(BodyTokens, MaxValBody),
        vs \in SeqsUpTo(ValDecls, MaxVars)}

\* Template names, as character sequences: valid ones and invalid ones.
TemplateNames ==
    {<<>>, <<" ">>, <<"-">>, <<"a">>, <<"1", "a">>, <<"a", "-", "a">>,
     <<"a", "_", "1">>, <<"a", " ", "a">>, <<"a", "!">>}

Contents == SeqsUpTo({" ", "x"}, MaxContent)

OptContents == {NoneText} \cup {Text(t) : t \in Contents}

ConfigData ==
    {TemplateConfig(n, t, sp, up, vs) :
        n \in TemplateNames, t \in Contents,
        sp \in OptContents, up \in OptContents, vs \in {<<>>, <<Vx_req>>}}

ErrorMessages == {Msg("e1", ""), Msg("e2", "")}
WarningMessages == {Msg("w1", "")}
ResultIds == {1, 2}

\* A declaration with a description.
Described(var, description) == [var EXCEPT !.description = description]

AnalyzeTemplates ==
    {<<>>, <<"x">>, Join(<<"w31", "x", "x", "x", "x">>),
     Join(<<"x", Placeholder("x")>>), <<"w24572">>, <<"w24576">>,
     <<"w40000">>}

AnalyzeSystems == {NoneText, Text(<<>>), Text(Join(<<"x", "x", "x", "x">>))}

AnalyzeUsers == {NoneText, Text(Join(<<"x", Placeholder("x")>>))}

AnalyzeVarLists ==
    {<<>>, <<Vx_req>>, <<Vx_enum>>, <<Vx_req, Vx_int>>, <<Vx_enum, Vx_enum>>,
     <<Described(Vx_req, Join(<<"long", "text">>))>>,
     <<Described(Vy_req, <<"short">>)>>}

AnalyzeData ==
    {TemplateConfig(Name_t, b, sp, up, vs) :
        b \in AnalyzeTemplates, sp \in AnalyzeSystems, up \in AnalyzeUsers,
        vs \in AnalyzeVarLists}

\* sample_values
Samples ==
    {<<>>, [n \in {"x"} |-> PyStr("a")], [n \in {"x"} |-> PyStr("w600")]}

\* Model identifiers: known keys, other spellings of them, longer and
\* shorter identifiers, unknown ones.
ModelNames ==
    {<<"g", "p", "t", "-", "4">>,
     <<"G", "P", "T", "-", "4">>,
     <<"g", "p", "t", "-", "4", "-", "t", "u", "r", "b", "o">>,
     <<"g", "p", "t", "-", "4", "-", "t", "u", "r", "b", "o", "-", "p",
     "r", "e", "v", "i", "e", "w">>,
     <<"g", "p", "t", "-", "4", "o", "-", "2", "0", "2", "4">>,
     <<"C", "l", "a", "u", "d", "e", "-", "3", "-", "S", "o", "n", "n",
     "e", "t", "-", "2", "0", "2", "4", "0", "2", "2", "9">>,
     <<"c", "l", "a", "u", "d", "e">>,
     <<"t", "u", "r", "b", "o">>,
     <<"g", "p", "t", "-", "3", ".", "5", "-", "t", "u", "r", "b", "o",
     "-", "1", "6", "k">>,
     <<"c", "l", "a", "u", "d", "e", "-", "2", ".", "1">>,
     <<"l", "l", "a", "m", "a">>,
     <<>>,
     <<"d", "e", "f", "a", "u", "l", "t">>,
     <<"3", "2", "K">>}

gpt_4 == MODEL_LIMITS[1].key

TargetModels ==
    {<<>>, <<gpt_4>>, <<<<"G", "P", "T", "-", "4">>, MODEL_LIMITS[3].key>>}

\* A list of n equal items.
Repeat(item, n) == [i \in 1..n |-> item]

RECURSIVE Flatten(_)
Flatten(q) == IF q = <<>> THEN <<>> ELSE Head(q) \o Flatten(Tail(q))

Role_t == <<"You", "are", "a", "helper">>
Task_t == <<"Please", "respond", "in", Placeholder("x")>>
IfBlock == <<"{%", "if", "x", "%}">>
EndIf == <<"{%", "endif", "%}">>

\* The contents scored: system_prompt, user_prompt, template.
QualityContents ==
    {<<NoneText, NoneText, <<"x">>>>,
     <<NoneText, NoneText, Join(Role_t \o <<".">> \o Task_t)>>,
     <<Text(Join(Role_t)), Text(Join(Task_t)), <<>>>>,
     <<Text(Join(Role_t)), NoneText, <<>>>>,
     <<NoneText, NoneText, <<"w600">>>>,
     <<NoneText, NoneText, Join(<<"##", "x", "w600">>)>>,
     <<Text(<<"w1100">>), Text(<<"x">>), <<>>>>,
     <<Text(Join(<<"<task>", "<role>", "<task>", "w1100">>)),
       Text(Join(Task_t)), <<>>>>,
     <<NoneText, NoneText,
       Join(Flatten(Repeat(IfBlock, 4)) \o Flatten(Repeat(EndIf, 4)))>>,
     <<NoneText, NoneText, Join(Flatten(Repeat(IfBlock \o EndIf, 6)))>>,
     <<NoneText, NoneText, Join(<<"Maybe", "maybe", "maybe">>)>>,
     <<NoneText, NoneText, Join(Repeat(Placeholder("x"), 6))>>,
     <<NoneText, NoneText, Join(Repeat("helper", 11))>>,
     <<Text(Join(<<"w31", ".">>)), Text(<<"w31">>), <<>>>>,
     <<NoneText, NoneText, <<"w24576">>>>,
     <<NoneText, NoneText, <<"w40004">>>>}

\* description and tags
QualityMetadata ==
    {<<<<>>, <<>>>>, <<<<"x">>, <<"t">>>>, <<<<"w31">>, <<"t">>>>}

QualityVarLists ==
    {<<>>,
     <<Described(Vx_enum, <<"w31">>)>>,
     <<Vx_opt>>,
     Repeat(VariableConfig("x", "string", TRUE, PyNone, Enum(<<PyInt(1)>>)),
            11),
     Repeat(VariableConfig("style", "string", TRUE, PyNone, NoEnum), 25),
     <<VariableConfig("user_name", "string", TRUE, PyNone, NoEnum),
       VariableConfig("userName", "string", TRUE, PyNone, NoEnum)>>,
     Repeat(Vx_req, 21)}

ScoreSamples == {<<>>, [n \in {"x"} |-> PyStr("a")]}

QualityData ==
    {[TemplateConfig(Name_t, c[3], c[1], c[2], vs)
        EXCEPT !.description = m[1], !.tags = m[2]] :
        c \in QualityContents, m \in QualityMetadata, vs \in QualityVarLists}

\* The contents validated: system_prompt, user_prompt, template.
SemanticContents ==
    {<<NoneText, NoneText, <<"x">>>>,
     <<Text(Join(Role_t)),
       Text(Join(<<"Please", "respond", "in", "this", "format">>)), <<>>>>,
     <<Text(<<"x">>), Text(Join(Role_t \o <<"x">>)), <<>>>>,
     <<Text(Join(Role_t)), NoneText, <<"x">>>>,
     <<NoneText, NoneText, <<"w3100">>>>,
     <<NoneText, NoneText, <<"w3100", " ", "<task>">>>>,
     <<NoneText, NoneText,
       Join(<<"maybe", "Maybe", "maybe", Placeholder("x")>>)>>,
     <<Text(<<"w31", ".">>), Text(<<"w31">>), <<>>>>,
     <<NoneText, NoneText, <<Placeholder("x")>>>>,
     <<NoneText, NoneText, <<Placeholder("y"), "\n", Placeholder("x")>>>>,
     <<NoneText, NoneText, <<"w31", " ", Placeholder("x"), " ", "w31">>>>,
     <<NoneText, NoneText,
       <<"w31", " ">> \o Repeat("\n", 20) \o <<Placeholder("x")>>>>,
     <<NoneText, NoneText,
       <<"w31", " ">> \o Repeat("\n", 18) \o <<Placeholder("x")>>>>}

SemanticDescriptions ==
    {<<>>, <<"x">>, <<"helper">>,
     <<"helper", " ", "format", " ", "following", " ", "structure">>}

SemanticVarLists == {<<>>, <<Vx_req>>, <<Vy_req, Vx_req>>}

SemanticData ==
    {[TemplateConfig(Name_t, c[3], c[1], c[2], vs)
        EXCEPT !.description = m] :
        c \in SemanticContents, m \in SemanticDescriptions,
        vs \in SemanticVarLists}

\* The issues a caller adds to a result.
IssuesAdded ==
    {SemanticIssue("prompt_structure", "error", "m", "template",
                   NoSuggestion),
     SemanticIssue("role_confusion", "warning", "m", "user_prompt",
                   Suggestion("s")),
     SemanticIssue("task_alignment", "info", "m", "description",
                   Suggestion("")),
     SemanticIssue("task_alignment", "info", "m", "description",
                   Suggestion("s"))}

\* The configurations and dicts given to the calls that must leave them
\* alone.
FrameData ==
    {TemplateConfig(Name_t, body, NoneText, NoneText, vs) :
        body \in {<<Placeholder("x")>>,
                  <<Placeholder("x"), " ", Placeholder("y")>>,
                  <<Placeholder("x")>> \o Repeat(" ", 21)
                      \o <<Placeholder("y")>>,
                  <<"{{", "x">>},
        vs \in {<<Vx_req>>, <<Vx_enum, Vy_def>>}}

FrameDicts ==
    {<<>>, [n \in {"x"} |-> PyStr("a")], [n \in {"x", "z"} |-> PyStr("c")]}

\* Configurations with and without split prompts.
PromptTexts ==
    {NoneText, Text(<<"a">>), Text(<<"a", " ", Placeholder("x")>>),
     Text(<<Placeholder("y")>>)}

SplitData ==
    {TemplateConfig(Name_t, b, sp, up, vs) :
        b \in {<<"a">>, <<Placeholder("x")>>},
        sp \in PromptTexts, up \in PromptTexts,
        vs \in {<<>>, <<Vx_req>>, <<Vx_enum, Vy_def>>}}

\* Templates made of block tags: every sequence of at most MaxTags tags of
\* five keywords, every sequence of at most two tags of all the keywords,
\* and a few with other spellings: no spaces, a keyword that is not
\* matched, tags in the system prompt.
BlockTag(keyword) == <<"{%", " ", keyword, " ", "%}">>

RECURSIVE TagTexts(_, _)
TagTexts(n, keywords) ==
    IF n = 0 THEN {<<>>}
    ELSE TagTexts(n - 1, keywords)
         \cup {BlockTag(k) \o t : k \in keywords,
                                  t \in {u \in TagTexts(n - 1, keywords) :
                                            Len(u) = 5 * (n - 1)}}

DepthData ==
    {TemplateConfig(Name_t, t, NoneText, NoneText, <<>>) :
        t \in TagTexts(MaxTags, {"if", "block", "else", "endif", "endblock"})
               \cup TagTexts(2, DepthKeywords)}
    \cup {TemplateConfig(Name_t, <<"{%", "if", "%}", "a", "{%", "endif", "%}">>,
                         NoneText, NoneText, <<>>),
          TemplateConfig(Name_t, <<"{%", " ", "set", " ", "%}">> \o BlockTag("for"),
                         NoneText, NoneText, <<>>),
          TemplateConfig(Name_t, BlockTag("for") \o BlockTag("endfor"),
                         Text(BlockTag("if") \o BlockTag("block")),
                         Text(BlockTag("if")), <<>>)}

\* Configurations for the recommendation rules: long and short templates,
\* placeholders repeated six times, four nested blocks, variables with and
\* without a description, with and without a description of the template.
SixTimes(name) == Join(Repeat(Placeholder(name), 6))

RecommendTemplates ==
    {<<"a">>, SixTimes("x"), SixTimes("x") \o <<" ">> \o SixTimes("y"),
     Flatten(Repeat(BlockTag("if"), 4)) \o SixTimes("y"),
     <<"w40004", " ">> \o SixTimes("x") \o <<" ">> \o SixTimes("y")}

RecommendVarLists ==
    {<<>>, <<Vx_req>>, <<Vx_req, Vy_req>>,
     <<Described(Vx_req, Join(<<"long", "text">>)), Vy_req>>,
     <<Vy_req, Described(Vx_req, <<"short">>)>>}

RecommendData ==
    {[TemplateConfig(Name_t, b, sp, NoneText, vs) EXCEPT !.description = ds] :
        b \in RecommendTemplates, sp \in {NoneText, Text(<<"a">>)},
        vs \in RecommendVarLists, ds \in {<<>>, <<"a">>}}

\* Configurations for the structure dimension: with and without each
\* prompt, short and long contents, with and without section tags and
\* four nested blocks.
NestedIfs == Flatten(Repeat(BlockTag("if"), 4))

StructureSystems ==
    {NoneText, Text(<<>>), Text(<<"a">>), Text(<<"w1100">>), Text(NestedIfs),
     Text(NestedIfs \o <<"w1100">>),
     Text(<<"<task>", "<role>", "<task>", "w1100">>)}

StructureUsers == {NoneText, Text(<<"x">>), Text(<<"w1100">>)}

StructureTemplates == {<<>>, <<"a">>, <<"w1100">>, NestedIfs}

StructureData ==
    {TemplateConfig(Name_t, b, sp, up, <<>>) :
        b \in StructureTemplates, sp \in StructureSystems,
        up \in StructureUsers}

\* Declarations whose tokens are estimated: every type with descriptions
\* holding no hint, a long hint, a short hint and both, and string
\* declarations with a default.
EstimateDescriptions ==
    {<<>>, Join(<<"long", "text">>), <<"short">>, Join(<<"brief", "code">>)}

EstimateDefaults == {PyStr(""), PyStr("w600"), PyInt(1)}

EstimateVars ==
    {Described(VariableConfig("x", type, FALSE, PyNone, NoEnum), description) :
        type \in DOMAIN type_estimates, description \in EstimateDescriptions}
    \cup
    {Described(VariableConfig("x", "string", FALSE, default, NoEnum),
               description) :
        default \in EstimateDefaults,
        description \in {<<>>, Join(<<"brief", "code">>)}}

EstimateSamples ==
    {<<>>, [n \in {"x"} |-> PyStr("w33")], [n \in {"x"} |-> PyNone],
     [n \in {"y"} |-> PyStr("w33")]}

\* Configurations for the placeholder check: a placeholder alone, with a
\* word next to it, with a word 16 or 20 characters away, two placeholders
\* far apart and close together; names declared and not declared.
PlaceholderTemplates ==
    {<<Placeholder("x")>>,
     <<"a", " ", Placeholder("x")>>,
     <<Placeholder("y"), "\n", Placeholder("x")>>,
     <<Placeholder("x")>> \o Repeat(" ", 25) \o <<Placeholder("x")>>,
     <<Placeholder("x")>> \o Repeat(" ", 21) \o <<Placeholder("y")>>,
     <<Placeholder("x"), "b">> \o Repeat(" ", 19) \o <<Placeholder("x")>>,
     <<Placeholder("x")>> \o Repeat(" ", 9) \o <<"b">> \o Repeat(" ", 15)
        \o <<Placeholder("x")>>,
     <<"a">> \o Repeat(" ", 20) \o <<Placeholder("x")>>}

PlaceholderData ==
    {[TemplateConfig(Name_t, b, sp, NoneText, vs) EXCEPT !.description = ds] :
        b \in PlaceholderTemplates, sp \in {NoneText, Text(<<"a">>)},
        vs \in SemanticVarLists, ds \in {<<>>, <<"x">>}}

\* Configurations validated: each text field empty, plain, with a
\* placeholder, or with a placeholder left open; variables declared once,
\* twice, or not at all.
Unclosed == <<"{{", "x">>

ValidatePrompts ==
    {NoneText, Text(<<"a">>), Text(<<Placeholder("x")>>), Text(Unclosed),
     Text(<<Placeholder("y")>>)}

SplitValidateData ==
    {TemplateConfig(Name_t, b, sp, up, vs) :
        b \in {<<>>, <<"a">>, <<Placeholder("x")>>, Unclosed},
        sp \in ValidatePrompts, up \in ValidatePrompts,
        vs \in {<<>>, <<Vx_req>>, <<Vx_req, Vx_req>>, <<Vx_enum, Vy_def>>}}

(************************* state machine **********************************)
NoCall == [op |-> "none", data |-> <<>>, vars |-> <<>>, out |-> Return(<<>>)]

\* The tokenizer cache before any TokenCounter is constructed, with the
\* number of initialisations tried and of encoders loaded so far.
NoTiktoken ==
    [cls |-> TokenCounterClass("None", "None", "unknown"),
     attempts |-> 0, loads |-> 0, raised |-> FALSE]

NoCounter == [owner |-> "none", self |-> <<>>]

Threads == 1..NumThreads

NoThread == [pc |-> "idle", available |-> "unread", missing |-> FALSE]

NoReport == [op |-> "none", args |-> <<>>, out |-> <<>>, prev |-> <<>>]

\* No dict has been given to a call yet; hash_order is the order in which
\* this process iterates a set of names, fixed by its hash seed.
NoCaller ==
    [op |-> "none", given |-> <<>>, callee |-> <<>>, store |-> <<>>,
     out |-> <<>>, again |-> FALSE, prev |-> <<>>, hash_order |-> <<>>]

\* No nesting-depth scan has started.
NoScan ==
    [pc |-> "none", content |-> <<>>, tags |-> <<>>, i |-> 0,
     current_depth |-> 0, max_depth |-> 0, depths |-> <<>>, returned |-> <<>>]

NoSemantic ==
    [op |-> "none", result |-> <<>>, issue |-> <<>>, before |-> <<>>,
     added |-> 0, converted |-> <<>>]

NoOp == [op |-> "none", i |-> 0, j |-> 0]

NoProbe == [op |-> "none", name |-> "", value |-> PyNone, type |-> "string",
            result |-> ValidationResult(TRUE)]

Init ==
    /\ config = <<>>
    /\ last = NoCall
    /\ results = [i \in ResultIds |-> ValidationResult(TRUE)]
    /\ lastOp = NoOp
    /\ probe = NoProbe
    /\ tiktoken = NoTiktoken
    /\ counter = NoCounter
    /\ threads = [t \in Threads |-> NoThread]
    /\ report = NoReport
    /\ semantic = NoSemantic
    /\ caller = NoCaller
    /\ scan = NoScan

\* No call has been made yet: the Template is loaded once, first.
Fresh == config = <<>> /\ last.op = "none"

\* Template.from_dict(data).
FromDict(data) ==
    /\ Fresh
    /\ LET out == from_dict(data)
       IN  /\ last' = [op |-> "from_dict", data |-> <<data>>, vars |-> <<>>,
                       out |-> out]
           /\ config' = IF out.kind = "raise" THEN config ELSE <<data>>
    /\ UNCHANGED <<results, lastOp, probe, analysisVars>>

Render(variables) ==
    /\ config # <<>>
    /\ last' = [op |-> "render", data |-> <<>>, vars |-> variables,
                out |-> Template_render(config[1], variables)]
    /\ UNCHANGED <<config, results, lastOp, probe, analysisVars>>

Preview(variables) ==
    /\ config # <<>>
    /\ last' = [op |-> "preview", data |-> <<>>, vars |-> variables,
                out |-> Template_preview(config[1], variables)]
    /\ UNCHANGED <<config, results, lastOp, probe, analysisVars>>

Validate ==
    /\ config # <<>>
    /\ last' = [op |-> "validate", data |-> <<>>, vars |-> <<>>,
                out |-> Template_validate(config[1])]
    /\ UNCHANGED <<config, results, lastOp, probe, analysisVars>>

AddError(i, m) ==
    /\ Len(results[i].errors) < MaxMsgs
    /\ results' = [results EXCEPT ![i] = add_error(@, m)]
    /\ lastOp' = [op |-> "add_error", i |-> i, j |-> 0]
    /\ UNCHANGED <<config, last, probe, analysisVars>>

AddWarning(i, m) ==
    /\ Len(results[i].warnings) < MaxMsgs
    /\ results' = [results EXCEPT ![i] = add_warning(@, m)]
    /\ lastOp' = [op |-> "add_warning", i |-> i, j |-> 0]
    /\ UNCHANGED <<config, last, probe, analysisVars>>

Merge(i, j) ==
    /\ Len(results[i].errors) + Len(results[j].errors) <= MaxMsgs
    /\ Len(results[i].warnings) + Len(results[j].warnings) <= MaxMsgs
    /\ results' = [results EXCEPT ![i] = merge(@, results[j])]
    /\ lastOp' = [op |-> "merge", i |-> i, j |-> j]
    /\ UNCHANGED <<config, last, probe, analysisVars>>

ValidateValueType(name, value, type) ==
    /\ probe' = [op |-> "checked", name |-> name, value |-> value,
                 type |-> type,
                 result |-> _validate_value_type(name, value, type)]
    /\ UNCHANGED <<config, last, results, lastOp, analysisVars>>

\* Loading a template and rendering or previewing it.
Next ==
    \/ Fresh /\ \E data \in RenderData : FromDict(data)
    \/ \E variables \in Bindings : Render(variables)
    \/ \E variables \in Bindings : Preview(variables)

Spec == Init /\ [][Next]_vars

\* Loading a template and validating it.
NextValidate ==
    \/ Fresh /\ \E data \in ValidateData : FromDict(data)
    \/ Validate

SpecValidate == Init /\ [][NextValidate]_vars

\* Constructing configurations.
NextConfig == Fresh /\ \E data \in ConfigData : FromDict(data)

SpecConfig == Init /\ [][NextConfig]_vars

\* ValidationResult objects under add_error, add_warning and merge.
NextResult ==
    \/ \E i \in ResultIds, m \in ErrorMessages : AddError(i, m)
    \/ \E i \in ResultIds, m \in WarningMessages : AddWarning(i, m)
    \/ \E i \in ResultIds, j \in ResultIds : Merge(i, j)

SpecResult == Init /\ [][NextResult]_vars

\* The type check on every value and declared type.
NextTypeCheck ==
    \E name \in VarNames, value \in AllValues, type \in VariableType :
        ValidateValueType(name, value, type)

SpecTypeCheck == Init /\ [][NextTypeCheck]_vars

(************************* the tokenizer cache ****************************)
\* A constructor that builds a TokenCounter: TokenCounter(use_tiktoken),
\* TemplateAnalyzer() and QualityScorer(), the last two with the default
\* use_tiktoken = True.
Construct(owner, use_tiktoken, outcome) ==
    /\ tiktoken.attempts < MaxAttempts
    /\ outcome \in PossibleOutcomes(tiktoken.cls)
    /\ LET r == TokenCounter(tiktoken.cls, use_tiktoken, outcome)
       IN  /\ tiktoken' =
                [cls |-> r.cls,
                 attempts |-> tiktoken.attempts + IF r.attempted THEN 1 ELSE 0,
                 loads |-> tiktoken.loads +
                           IF r.attempted /\ outcome = "loaded" THEN 1 ELSE 0,
                 raised |-> r.raised]
           /\ counter' = IF r.raised THEN counter
                         ELSE [owner |-> owner, self |-> r.self]
    /\ UNCHANGED <<config, last, results, lastOp, probe, threads, report,
                   semantic, caller, scan>>

NewTokenCounter(use_tiktoken, outcome) ==
    Construct("TokenCounter", use_tiktoken, outcome)

NewTemplateAnalyzer(outcome) == Construct("TemplateAnalyzer", TRUE, outcome)

NewQualityScorer(outcome) == Construct("QualityScorer", TRUE, outcome)

\* counter.count_tokens(text); the call before it is kept for comparison.
CountTokens(text) ==
    /\ counter.self # <<>>
    /\ LET this == [text |-> text,
                    exact |-> uses_encoder(counter.self[1], tiktoken.cls),
                    out |-> count_tokens(counter.self[1], tiktoken.cls, text)]
       IN  report' = [op |-> "count_tokens", args |-> <<text>>,
                      out |-> <<this>>,
                      prev |-> IF report.op = "count_tokens" THEN report.out
                               ELSE <<>>]
    /\ UNCHANGED <<config, last, results, lastOp, probe, tiktoken, counter,
                   threads, semantic, caller, scan>>

\* The texts counted: every text of up to MaxText letters and spaces.
CountTexts == SeqsUpTo({"a", " "}, MaxText)

\* Counting tokens of texts with a TokenCounter.
NextTokens ==
    \/ \E use_tiktoken \in BOOLEAN, outcome \in ImportOutcomes :
            NewTokenCounter(use_tiktoken, outcome)
    \/ \E text \in CountTexts : CountTokens(text)

SpecTokens == Init /\ [][NextTokens]_vars

ProbeTexts == {<<>>, <<"a", "a", " ", "a">>}

\* Constructing the objects that hold a TokenCounter, and counting.
NextTokenizer ==
    \/ \E use_tiktoken \in BOOLEAN, outcome \in ImportOutcomes :
            NewTokenCounter(use_tiktoken, outcome)
    \/ \E outcome \in ImportOutcomes : NewTemplateAnalyzer(outcome)
    \/ \E outcome \in ImportOutcomes : NewQualityScorer(outcome)
    \/ \E text \in ProbeTexts : CountTokens(text)

SpecTokenizer == Init /\ [][NextTokenizer]_vars

(************************* threads ****************************************)
\* Each thread runs TokenCounter() and then count_tokens, one read or write
\* of a class attribute at a time.
Step(t, pc) == [threads EXCEPT ![t].pc = pc]

ThreadFrame == <<config, last, results, lastOp, probe, counter, report,
                 semantic, caller, scan>>

\* TokenCounter.__init__: use_tiktoken is True, so _check_tiktoken is called.
T_Begin(t) ==
    /\ threads[t].pc = "idle"
    /\ threads' = Step(t, "check")
    /\ UNCHANGED <<tiktoken, ThreadFrame>>

\* if cls._tiktoken_available is None
T_Check(t) ==
    /\ threads[t].pc = "check"
    /\ threads' = Step(t, IF tiktoken.cls._tiktoken_available = "None"
                          THEN "import" ELSE "ready")
    /\ UNCHANGED <<tiktoken, ThreadFrame>>

\* import tiktoken; tiktoken.get_encoding("cl100k_base")
T_Import(t, outcome) ==
    /\ threads[t].pc = "import"
    /\ outcome \in PossibleOutcomes(tiktoken.cls)
    /\ tiktoken.attempts < MaxAttempts
    /\ threads' = Step(t, CASE outcome = "loaded" -> "store_encoding"
                            [] outcome = "ImportError" -> "store_false"
                            [] OTHER -> "raised")
    /\ tiktoken' =
         [tiktoken EXCEPT
            !.cls.installed = IF outcome = "ImportError" THEN "no" ELSE "yes",
            !.attempts = @ + 1,
            !.loads = @ + IF outcome = "loaded" THEN 1 ELSE 0,
            !.raised = outcome = "OtherError"]
    /\ UNCHANGED ThreadFrame

\* cls._encoding = <the encoder>
T_StoreEncoding(t) ==
    /\ threads[t].pc = "store_encoding"
    /\ threads' = Step(t, "store_true")
    /\ tiktoken' = [tiktoken EXCEPT !.cls._encoding = "cl100k_base"]
    /\ UNCHANGED ThreadFrame

\* cls._tiktoken_available = True
T_StoreTrue(t) ==
    /\ threads[t].pc = "store_true"
    /\ threads' = Step(t, "ready")
    /\ tiktoken' = [tiktoken EXCEPT !.cls._tiktoken_available = "True"]
    /\ UNCHANGED ThreadFrame

\* except ImportError: cls._tiktoken_available = False
T_StoreFalse(t) ==
    /\ threads[t].pc = "store_false"
    /\ threads' = Step(t, "ready")
    /\ tiktoken' = [tiktoken EXCEPT !.cls._tiktoken_available = "False"]
    /\ UNCHANGED ThreadFrame

\* count_tokens: self._use_tiktoken and self._tiktoken_available
T_ReadAvailable(t) ==
    /\ threads[t].pc = "ready"
    /\ threads' = [threads EXCEPT
                     ![t].available = tiktoken.cls._tiktoken_available,
                     ![t].pc = IF tiktoken.cls._tiktoken_available = "True"
                               THEN "read_encoding" ELSE "counted"]
    /\ UNCHANGED <<tiktoken, ThreadFrame>>

\* count_tokens: ... and self._encoding
T_ReadEncoding(t) ==
    /\ threads[t].pc = "read_encoding"
    /\ threads' = [threads EXCEPT
                     ![t].missing = tiktoken.cls._encoding = "None",
                     ![t].pc = "counted"]
    /\ UNCHANGED <<tiktoken, ThreadFrame>>

NextThreads ==
    \E t \in Threads :
        \/ T_Begin(t)
        \/ T_Check(t)
        \/ \E outcome \in ImportOutcomes : T_Import(t, outcome)
        \/ T_StoreEncoding(t)
        \/ T_StoreTrue(t)
        \/ T_StoreFalse(t)
        \/ T_ReadAvailable(t)
        \/ T_ReadEncoding(t)

SpecThreads == Init /\ [][NextThreads]_vars

(************************* analysis ***************************************)
\* analyzer.analyze(config, sample_values, target_models) on the template
\* loaded, with a TemplateAnalyzer constructed before.
Analyze(sample_values, target_models) ==
    /\ config # <<>>
    /\ counter.owner = "TemplateAnalyzer"
    /\ report' =
        [op |-> "analyze", args |-> <<sample_values, target_models>>,
         out |-> <<[exact |-> uses_encoder(counter.self[1], tiktoken.cls),
                    result |-> analyze(counter.self[1], tiktoken.cls,
                                       config[1], sample_values,
                                       target_models)]>>,
         prev |-> <<>>]
    /\ UNCHANGED <<config, last, results, lastOp, probe, tiktoken, counter,
                   threads, semantic, caller, scan>>

\* get_model_limit(model); the call before it is kept for comparison.
GetModelLimit(model) ==
    /\ report' = [op |-> "get_model_limit", args |-> <<model>>,
                  out |-> <<get_model_limit(model)>>,
                  prev |-> IF report.op = "get_model_limit"
                           THEN <<[model |-> report.args[1],
                                   limit |-> report.out[1]]>>
                           ELSE <<>>]
    /\ UNCHANGED <<config, last, results, lastOp, probe, tiktoken, counter,
                   threads, semantic, caller, scan>>

\* Loading a template and analysing it.
NextAnalyze ==
    \/ Fresh /\ \E data \in AnalyzeData : FromDict(data)
    \/ \E outcome \in ImportOutcomes : NewTemplateAnalyzer(outcome)
    \/ \E sample_values \in Samples, target_models \in TargetModels :
            Analyze(sample_values, target_models)

SpecAnalyze == Init /\ [][NextAnalyze]_vars

\* Resolving the context limits of model identifiers.
NextLimits == \E model \in ModelNames : GetModelLimit(model)

SpecLimits == Init /\ [][NextLimits]_vars

(************************* quality ****************************************)
\* scorer.score(config, sample_values) on the template loaded, with a
\* QualityScorer constructed before, and report.is_production_ready.
Score(sample_values) ==
    /\ config # <<>>
    /\ counter.owner = "QualityScorer"
    /\ LET result == score(counter.self[1], tiktoken.cls, config[1],
                           sample_values)
       IN  report' =
            [op |-> "score", args |-> <<sample_values>>,
             out |-> <<[exact |-> uses_encoder(counter.self[1], tiktoken.cls),
                        result |-> result,
                        ready |-> is_production_ready(result)]>>,
             prev |-> <<>>]
    /\ UNCHANGED <<config, last, results, lastOp, probe, tiktoken, counter,
                   threads, semantic, caller, scan>>

\* Loading a template and scoring it.
NextQuality ==
    \/ Fresh /\ \E data \in QualityData : FromDict(data)
    \/ \E outcome \in ImportOutcomes : NewQualityScorer(outcome)
    \/ \E sample_values \in ScoreSamples : Score(sample_values)

SpecQuality == Init /\ [][NextQuality]_vars

(************************* semantic validation ****************************)
\* SemanticValidationResult()
NewSemanticResult ==
    /\ semantic' = [NoSemantic EXCEPT !.op = "new",
                                      !.result = <<SemanticValidationResult>>]
    /\ UNCHANGED <<config, last, results, lastOp, probe, tiktoken, counter,
                   threads, report, caller, scan>>

\* SemanticValidator().validate(config) on the template loaded.
SemanticValidate ==
    /\ config # <<>>
    /\ \E order \in IterationOrders(var_usages_of(all_content_of(config[1]))) :
            semantic' =
                [NoSemantic EXCEPT
                    !.op = "validate",
                    !.result = <<semantic_validate(config[1], order)>>]
    /\ UNCHANGED <<config, last, results, lastOp, probe, tiktoken, counter,
                   threads, report, caller, scan>>

\* result.add_issue(issue) on the result held.
AddIssue(issue) ==
    /\ semantic.result # <<>>
    /\ semantic.added < MaxAdded
    /\ semantic' =
            [semantic EXCEPT
                !.op = "add_issue",
                !.result = <<add_issue(semantic.result[1], issue)>>,
                !.issue = <<issue>>,
                !.before = semantic.result,
                !.added = @ + 1,
                !.converted = <<>>]
    /\ UNCHANGED <<config, last, results, lastOp, probe, tiktoken, counter,
                   threads, report, caller, scan>>

\* result.to_validation_result() on the result held.
ToValidationResult ==
    /\ semantic.result # <<>>
    /\ semantic' =
            [semantic EXCEPT
                !.op = "to_validation_result",
                !.converted = <<to_validation_result(semantic.result[1])>>]
    /\ UNCHANGED <<config, last, results, lastOp, probe, tiktoken, counter,
                   threads, report, caller, scan>>

\* Loading a template, validating it, and using the result.
NextSemantic ==
    \/ Fresh /\ \E data \in SemanticData : FromDict(data)
    \/ NewSemanticResult
    \/ SemanticValidate
    \/ \E issue \in IssuesAdded : AddIssue(issue)
    \/ ToValidationResult

SpecSemantic == Init /\ [][NextSemantic]_vars

(************************* calls on a dict the caller holds ***************)
\* What the caller sees after giving its dict to a call: the dicts as the
\* call left them, the outcome, and the outcome of the call before when
\* that was the same call on the same arguments.
Called(op, given, callee, store, out) ==
    [op |-> op, given |-> given, callee |-> callee, store |-> store,
     out |-> out,
     again |-> caller.op = op /\ caller.given = given
                  /\ caller.callee = callee,
     prev |-> IF caller.op = op /\ caller.given = given
                    /\ caller.callee = callee
              THEN caller.out ELSE <<>>,
     hash_order |-> caller.hash_order]

\* template.render(**d)
CallRender(d) ==
    /\ config # <<>>
    /\ caller' = Called("render", d, <<>>,
                        Template_render_on("caller" :> d, config[1]),
                        Template_render(config[1], d))
    /\ UNCHANGED <<config, last, results, lastOp, probe, tiktoken, counter,
                   threads, report, semantic, scan>>

\* template.preview(**d)
CallPreview(d) ==
    /\ config # <<>>
    /\ caller' = Called("preview", d, <<>>,
                        Template_preview_on("caller" :> d, config[1]),
                        Template_preview(config[1], d))
    /\ UNCHANGED <<config, last, results, lastOp, probe, tiktoken, counter,
                   threads, report, semantic, scan>>

\* TemplateRenderer().preview(config.template, d)
CallRendererPreview(d) ==
    /\ config # <<>>
    /\ caller' = Called("renderer_preview", d, <<>>,
                        TemplateRenderer_preview_on("caller" :> d,
                                                    config[1].template,
                                                    "caller"),
                        TemplateRenderer_preview(config[1].template, d))
    /\ UNCHANGED <<config, last, results, lastOp, probe, tiktoken, counter,
                   threads, report, semantic, scan>>

\* TemplateValidator().validate(config)
CallValidate ==
    /\ config # <<>>
    /\ caller' = Called("validate", <<>>, <<>>, "caller" :> <<>>,
                        validate(config[1]))
    /\ UNCHANGED <<config, last, results, lastOp, probe, tiktoken, counter,
                   threads, report, semantic, scan>>

\* TemplateValidator().validate_inputs(config, d): d is read only.
CallValidateInputs(d) ==
    /\ config # <<>>
    /\ caller' = Called("validate_inputs", d, <<>>, "caller" :> d,
                        validate_inputs(config[1], d))
    /\ UNCHANGED <<config, last, results, lastOp, probe, tiktoken, counter,
                   threads, report, semantic, scan>>

\* analyzer.analyze(config, d): d is read only.
CallAnalyze(d) ==
    /\ config # <<>>
    /\ counter.owner = "TemplateAnalyzer"
    /\ caller' = Called("analyze", d, <<counter, tiktoken.cls>>,
                        "caller" :> d,
                        analyze(counter.self[1], tiktoken.cls, config[1], d,
                                <<>>))
    /\ UNCHANGED <<config, last, results, lastOp, probe, tiktoken, counter,
                   threads, report, semantic, scan>>

\* scorer.score(config, d): d is read only.
CallScore(d) ==
    /\ config # <<>>
    /\ counter.owner = "QualityScorer"
    /\ caller' = Called("score", d, <<counter, tiktoken.cls>>,
                        "caller" :> d,
                        score(counter.self[1], tiktoken.cls, config[1], d))
    /\ UNCHANGED <<config, last, results, lastOp, probe, tiktoken, counter,
                   threads, report, semantic, scan>>

\* SemanticValidator().validate(config); the set of names is iterated in
\* the order of this process.
CallSemanticValidate ==
    /\ config # <<>>
    /\ \E order \in IterationOrders(
                        var_usages_of(all_content_of(config[1]))) :
            /\ caller.hash_order \in {<<>>, <<order>>}
            /\ caller' =
                [Called("semantic_validate", <<>>, <<>>, "caller" :> <<>>,
                        semantic_validate(config[1], order))
                    EXCEPT !.hash_order = <<order>>]
    /\ UNCHANGED <<config, last, results, lastOp, probe, tiktoken, counter,
                   threads, report, semantic, scan>>

\* Loading a template and giving it, with a dict, to the calls.
NextFrame ==
    \/ Fresh /\ \E data \in FrameData : FromDict(data)
    \/ \E outcome \in ImportOutcomes : NewTemplateAnalyzer(outcome)
    \/ \E outcome \in ImportOutcomes : NewQualityScorer(outcome)
    \/ \E d \in FrameDicts : CallRender(d)
    \/ \E d \in FrameDicts : CallPreview(d)
    \/ \E d \in FrameDicts : CallRendererPreview(d)
    \/ CallValidate
    \/ \E d \in FrameDicts : CallValidateInputs(d)
    \/ \E d \in Samples : CallAnalyze(d)
    \/ \E d \in Samples : CallScore(d)
    \/ CallSemanticValidate

SpecFrame == Init /\ [][NextFrame]_vars

\* prompt run <name> --var ...: the rendering step of the command.
RunTemplate(variables) ==
    /\ config # <<>>
    /\ last' = [op |-> "run_template", data |-> <<>>, vars |-> variables,
                out |-> run_template(config[1], variables)]
    /\ UNCHANGED <<config, results, lastOp, probe, analysisVars>>

NextCli ==
    \/ \E data \in SplitData : FromDict(data)
    \/ \E variables \in Bindings : RunTemplate(variables)

SpecCli == Init /\ [][NextCli]_vars

(************************* nesting depth **********************************)
\* self._calculate_nesting_depth(all_content), as _analyze_structure calls
\* it on the template loaded: the matches of re.finditer, none consumed yet.
\* depths is the current depth after each match consumed.
StartDepth ==
    /\ config # <<>>
    /\ scan.pc = "none"
    /\ scan' = [pc |-> "loop",
                content |-> all_content_of(config[1]),
                tags |-> BlockTags(all_content_of(config[1]), 1, DepthKeywords),
                i |-> 1, current_depth |-> 0, max_depth |-> 0,
                depths |-> <<>>, returned |-> <<>>]
    /\ UNCHANGED <<config, last, results, lastOp, probe, tiktoken, counter,
                   threads, report, semantic, caller>>

\* One iteration of the loop.
DepthTag ==
    /\ scan.pc = "loop"
    /\ scan.i <= Len(scan.tags)
    /\ LET after == depth_step(scan, scan.tags[scan.i])
       IN  scan' = [after EXCEPT !.i = @ + 1,
                                 !.depths = Append(@, after.current_depth)]
    /\ UNCHANGED <<config, last, results, lastOp, probe, tiktoken, counter,
                   threads, report, semantic, caller>>

\* return max_depth
DepthReturn ==
    /\ scan.pc = "loop"
    /\ scan.i > Len(scan.tags)
    /\ scan' = [scan EXCEPT !.pc = "done", !.returned = <<scan.max_depth>>]
    /\ UNCHANGED <<config, last, results, lastOp, probe, tiktoken, counter,
                   threads, report, semantic, caller>>

\* scorer._score_structure(config) on the template loaded.
ScoreStructure ==
    /\ config # <<>>
    /\ report' = [op |-> "_score_structure", args |-> <<>>,
                  out |-> <<_score_structure(config[1])>>, prev |-> <<>>]
    /\ UNCHANGED <<config, last, results, lastOp, probe, tiktoken, counter,
                   threads, semantic, caller, scan>>

NextDepth ==
    \/ \E data \in DepthData : FromDict(data)
    \/ StartDepth
    \/ DepthTag
    \/ DepthReturn
    \/ ScoreStructure

SpecDepth == Init /\ [][NextDepth]_vars

\* Analyses whose recommendations are read.
NextRecommend ==
    \/ \E data \in RecommendData : FromDict(data)
    \/ \E outcome \in ImportOutcomes : NewTemplateAnalyzer(outcome)
    \/ Analyze(<<>>, <<>>)

SpecRecommend == Init /\ [][NextRecommend]_vars

\* The structure dimension of the configurations above.
NextStructure ==
    \/ \E data \in StructureData : FromDict(data)
    \/ ScoreStructure

SpecStructure == Init /\ [][NextStructure]_vars

\* counter.estimate_variable_tokens(var_config, sample_values)
EstimateVariableTokens(var_config, sample_values) ==
    /\ counter.self # <<>>
    /\ report' = [op |-> "estimate_variable_tokens",
                  args |-> <<var_config, sample_values>>,
                  out |-> <<[self |-> counter.self[1], cls |-> tiktoken.cls,
                             out |-> estimate_variable_tokens(
                                         counter.self[1], tiktoken.cls,
                                         var_config, sample_values)]>>,
                  prev |-> <<>>]
    /\ UNCHANGED <<config, last, results, lastOp, probe, tiktoken, counter,
                   threads, semantic, caller, scan>>

NextEstimate ==
    \/ \E use_tiktoken \in BOOLEAN, outcome \in ImportOutcomes :
            NewTokenCounter(use_tiktoken, outcome)
    \/ \E var_config \in EstimateVars, sample_values \in EstimateSamples :
            EstimateVariableTokens(var_config, sample_values)

SpecEstimate == Init /\ [][NextEstimate]_vars

\* Semantic validation of the configurations above.
NextPlaceholder ==
    \/ \E data \in PlaceholderData : FromDict(data)
    \/ SemanticValidate

SpecPlaceholder == Init /\ [][NextPlaceholder]_vars

\* template.validate() on the configurations above.
NextSplitValidate ==
    \/ \E data \in SplitValidateData : FromDict(data)
    \/ Validate

SpecSplitValidate == Init /\ [][NextSplitValidate]_vars

(************************* properties *************************************)
Declared(cfg) == {cfg.variables[i].name : i \in 1..Len(cfg.variables)}

MustProvide(cfg) ==
    {cfg.variables[i].name : i \in {j \in 1..Len(cfg.variables) :
        cfg.variables[j].required /\ cfg.variables[j].default = PyNone}}

Declaration(cfg, n) ==
    cfg.variables[CHOOSE i \in 1..Len(cfg.variables) :
                    /\ cfg.variables[i].name = n
                    /\ \A j \in 1..(i - 1) : cfg.variables[j].name # n]

WithDefault(cfg) ==
    {cfg.variables[i].name : i \in {j \in 1..Len(cfg.variables) :
        cfg.variables[j].default # PyNone}}

DefaultOf(cfg, n) ==
    cfg.variables[CHOOSE i \in 1..Len(cfg.variables) :
                    /\ cfg.variables[i].name = n
                    /\ cfg.variables[i].default # PyNone
                    /\ \A j \in 1..(i - 1) :
                         ~(/\ cfg.variables[j].name = n
                           /\ cfg.variables[j].default # PyNone)].default

\* The value render uses for a name: the caller's, else the declared default.
ValueFor(cfg, variables, n) ==
    IF n \in DOMAIN variables THEN variables[n] ELSE DefaultOf(cfg, n)

Bound(cfg, variables) == DOMAIN variables \cup WithDefault(cfg)

\* The acceptance table of the type check, by declared type and value class.
Accepts(type, kind) ==
    CASE type = "string" -> kind = "str"
      [] type = "integer" -> kind = "int"
      [] type = "float" -> kind \in {"int", "float"}
      [] type = "boolean" -> kind = "bool"
      [] type = "list" -> kind = "list"
      [] OTHER -> kind = "dict"

\* Every value render works with belongs to a declaration and passes its
\* type and enum, and no must-provide variable is missing.
InputsFine(cfg, variables) ==
    /\ MustProvide(cfg) \subseteq DOMAIN variables
    /\ \A n \in Bound(cfg, variables) :
         /\ n \in Declared(cfg)
         /\ Accepts(Declaration(cfg, n).type, ValueFor(cfg, variables, n).k)
         /\ Declaration(cfg, n).enum.set =>
              PyIn(ValueFor(cfg, variables, n), Declaration(cfg, n).enum.items)

\* The body is literal text and "{{ name }}" placeholders only.
SimpleBody(body) ==
    \A i \in 1..Len(body) : body[i] \notin {"{{", "}}"}

Referenced(body) ==
    {NameOf(body[i]) : i \in {j \in 1..Len(body) : body[j] \in PlaceholderTokens}}

Substituted(cfg, variables) ==
    [i \in 1..Len(cfg.template) |->
        IF cfg.template[i] \in PlaceholderTokens
        THEN Str(ValueFor(cfg, variables, NameOf(cfg.template[i])))
        ELSE cfg.template[i]]

Rendered == last.op = "render" /\ config # <<>>

\* C1: render without a value for a required variable that has no default
\* raises TemplateRenderError naming the variable; render with values of the
\* declared types for the declared variables does not fail.
C1_RequiredVariable ==
    Rendered =>
        LET cfg == config[1]
            missing == MustProvide(cfg) \ DOMAIN last.vars
        IN  /\ missing # {} =>
                /\ last.out.kind = "raise"
                /\ last.out.exc = "TemplateRenderError"
                /\ \A n \in missing :
                     Msg("missing_required", n) \in Range(last.out.errors)
            /\ (/\ MustProvide(cfg) # {}
                /\ InputsFine(cfg, last.vars)
                /\ SimpleBody(cfg.template)
                /\ Referenced(cfg.template) \subseteq Bound(cfg, last.vars)) =>
                last.out.kind = "return"

\* C2: for a body of literal text and placeholders of declared variables,
\* render returns the body with each placeholder replaced by str(value) and
\* everything else unchanged.
C2_Substitution ==
    (/\ Rendered
     /\ SimpleBody(config[1].template)
     /\ Referenced(config[1].template) \subseteq Declared(config[1])
     /\ Referenced(config[1].template) \subseteq Bound(config[1], last.vars)
     /\ InputsFine(config[1], last.vars)) =>
        /\ last.out.kind = "return"
        /\ last.out.text = Substituted(config[1], last.vars)

\* C3: with a declared enum, render returns the text when the bound value is
\* a member of the enum and raises TemplateRenderError when it is not.
C3_EnumValue ==
    Rendered =>
        LET cfg == config[1]
            enums == {n \in Declared(cfg) \cap DOMAIN last.vars :
                        Declaration(cfg, n).enum.set}
        IN  /\ (\E n \in enums :
                  ~PyIn(last.vars[n], Declaration(cfg, n).enum.items)) =>
                /\ last.out.kind = "raise"
                /\ last.out.exc = "TemplateRenderError"
            /\ (/\ enums # {}
                /\ InputsFine(cfg, last.vars)
                /\ SimpleBody(cfg.template)
                /\ Referenced(cfg.template) \subseteq Bound(cfg, last.vars)) =>
                /\ last.out.kind = "return"
                /\ last.out.text = Substituted(cfg, last.vars)

\* C4: when the body references a name that has neither a binding nor a
\* declared default, render raises TemplateRenderError and returns no text.
C4_StrictUndefined ==
    (/\ Rendered
     /\ env_parse(config[1].template).ok
     /\ \E n \in extract_variables(config[1].template) :
          n \notin Bound(config[1], last.vars)) =>
        /\ last.out.kind = "raise"
        /\ last.out.exc = "TemplateRenderError"

Blank(t) == \A i \in 1..Len(t) : t[i] = " "

AllBlank(d) ==
    /\ Blank(d.template)
    /\ d.system_prompt.none \/ Blank(d.system_prompt.text)
    /\ d.user_prompt.none \/ Blank(d.user_prompt.text)

C6_ValidIffNoErrors ==
    /\ [](\A i \in ResultIds :
            results[i].is_valid <=> results[i].errors = <<>>)
    /\ [][\A i \in ResultIds :
            /\ ~results[i].is_valid => ~results'[i].is_valid
            /\ lastOp'.op = "add_warning" =>
                 results'[i].is_valid = results[i].is_valid
            /\ (/\ lastOp'.op = "merge" /\ lastOp'.i = i
                /\ results[lastOp'.j].is_valid) =>
                 results'[i].is_valid = results[i].is_valid]_vars

C6_Witness ==
    /\ lastOp.op = "merge"
    /\ lastOp.i # lastOp.j
    /\ ~results[lastOp.i].is_valid
    /\ Len(results[lastOp.i].errors) = 2
    /\ results[lastOp.i].warnings # <<>>

Validated == last.op = "validate" /\ config # <<>>

Occurrences(q, m) == Cardinality({i \in 1..Len(q) : q[i] = m})

\* The declarations have distinct names, and each default is of the declared
\* type and within the declared enum.
CleanDeclarations(cfg) ==
    /\ \A i, j \in 1..Len(cfg.variables) :
         cfg.variables[i].name = cfg.variables[j].name => i = j
    /\ \A i \in 1..Len(cfg.variables) :
         cfg.variables[i].default # PyNone =>
            /\ Accepts(cfg.variables[i].type, cfg.variables[i].default.k)
            /\ cfg.variables[i].enum.set =>
                 PyIn(cfg.variables[i].default, cfg.variables[i].enum.items)

WarningsAsStated(cfg, res) ==
    LET referenced == extract_variables(cfg.template)
        unused == Declared(cfg) \ referenced
        undeclared == referenced \ Declared(cfg)
    IN  /\ Len(res.warnings) = Cardinality(unused) + Cardinality(undeclared)
        /\ \A n \in unused : Occurrences(res.warnings, Msg("unused", n)) = 1
        /\ \A n \in undeclared :
             Occurrences(res.warnings, Msg("undeclared", n)) = 1
        /\ \A i \in 1..Len(res.errors) :
             res.errors[i].code \notin {"unused", "undeclared"}

C8_TypeTable ==
    probe.op = "checked" =>
        /\ Accepts(probe.type, probe.value.k) =>
             probe.result.errors = <<>> /\ probe.result.is_valid
        /\ ~Accepts(probe.type, probe.value.k) =>
             /\ probe.result.errors = <<Msg("type_mismatch", probe.name)>>
             /\ ~probe.result.is_valid
        /\ probe.result.warnings = <<>>

C8_Witness ==
    /\ probe.op = "checked"
    /\ probe.value = PyBool(TRUE)
    /\ probe.type = "integer"
    /\ Len(probe.result.errors) = 1

\* C9: a default that is not a member of a declared enum (any enum list,
\* the empty one included) is reported by validate as an error and makes
\* the result invalid.
C9_DefaultInEnum ==
    Validated =>
        \A i \in 1..Len(config[1].variables) :
            LET var == config[1].variables[i]
            IN  (/\ var.enum.set
                 /\ var.default # PyNone
                 /\ ~PyIn(var.default, var.enum.items)) =>
                    /\ ~last.out.res.is_valid
                    /\ Msg("default_not_in_enum", var.name)
                         \in Range(last.out.res.errors)

PreviewErrors ==
    {"Preview error (syntax)", "Preview error (undefined variable)",
     "Preview error"}

\* C10: preview never raises; a failure is returned as one string starting
\* with "Preview error"; when the body renders, every name extracted from it
\* that has neither a supplied value nor a declared default shows as
\* "[name]".
C10_PreviewNeverRaises ==
    (last.op = "preview" /\ config # <<>>) =>
        LET cfg == config[1]
            ast == env_parse(cfg.template)
        IN  /\ last.out.kind = "return"
            /\ ~ast.ok =>
                 /\ Len(last.out.text) = 1
                 /\ last.out.text[1] \in PreviewErrors
            /\ ast.ok =>
                 /\ Len(last.out.text) = Len(ast.nodes)
                 /\ \A i \in 1..Len(ast.nodes) :
                      last.out.text[i] =
                        IF ast.nodes[i].t = "data" THEN ast.nodes[i].s
                        ELSE IF ast.nodes[i].s \in Bound(cfg, last.vars)
                             THEN Str(ValueFor(cfg, last.vars, ast.nodes[i].s))
                             ELSE "[" \o ast.nodes[i].s \o "]"

C10_Witness ==
    /\ last.op = "preview"
    /\ config # <<>>
    /\ config[1].template = <<"x", Placeholder("x"), Placeholder("y")>>
    /\ config[1].variables = <<Vx_enum>>
    /\ last.vars = <<>>
    /\ last.out.kind = "return"
    /\ last.out.text = <<"x", "a", "[y]">>

(************************* C11 ********************************************)
Counted == report.op = "count_tokens"

\* Both the last call and the one before it used the fallback estimator.
FallbackPair ==
    /\ Counted /\ report.prev # <<>>
    /\ ~report.out[1].exact /\ ~report.prev[1].exact

IsPrefix(s, t) == Len(s) <= Len(t) /\ SubSeq(t, 1, Len(s)) = s

Analyzed == report.op = "analyze"

Estimate == report.out[1].result.token_estimate

\* The estimate before the floor at zero, from the figures reported.
RawTotal ==
    Estimate.total_static_tokens - 2 * Len(config[1].variables)
    + SumValues(Estimate.estimated_variable_tokens)

SectionTokens(field) ==
    IF Truthy(field)
    THEN <<count_tokens(counter.self[1], tiktoken.cls, Chars(field.text))>>
    ELSE <<>>

\* C12: after analyze, total_static_tokens is the sum of the system, user
\* and template token counts (an absent section counting 0), and
\* estimated_total is max(0, total_static_tokens - 2 * (number of declared
\* variables) + the sum of the per-variable estimates reported); it is
\* never negative.
C12_EstimatedTotal ==
    Analyzed =>
        /\ Estimate.system_prompt_tokens = SectionTokens(config[1].system_prompt)
        /\ Estimate.user_prompt_tokens = SectionTokens(config[1].user_prompt)
        /\ Estimate.template_tokens =
              count_tokens(counter.self[1], tiktoken.cls,
                           Chars(config[1].template))
        /\ Estimate.total_static_tokens =
              OrZero(Estimate.system_prompt_tokens)
              + OrZero(Estimate.user_prompt_tokens)
              + Estimate.template_tokens
        /\ Estimate.estimated_total = IF RawTotal > 0 THEN RawTotal ELSE 0
        /\ Estimate.estimated_total >= 0

\* A template whose declared variables outweigh its text: the raw figure is
\* negative and the estimate reported is 0.
C12_Witness ==
    /\ Analyzed
    /\ config[1].variables # <<>>
    /\ RawTotal < 0
    /\ Estimate.estimated_total = 0

(************************* C13 ********************************************)
VariableFree ==
    /\ config[1].variables = <<>>
    /\ ~Truthy(config[1].system_prompt)
    /\ ~Truthy(config[1].user_prompt)

\* C13: model_fit[model] holds exactly when 4 * estimated_total is below
\* 3 * get_model_limit(model); with the fallback estimator a variable-free
\* template of under 40 characters fits gpt-4 and one of 40000 characters
\* or more does not.
C13_ModelFit ==
    Analyzed =>
        /\ \A model \in DOMAIN Estimate.model_fit :
              Estimate.model_fit[model] <=>
                  4 * Estimate.estimated_total < 3 * get_model_limit(model)
        /\ DOMAIN Estimate.model_fit =
              IF report.args[2] = <<>> THEN Range(DefaultModels)
              ELSE Range(report.args[2])
        /\ (/\ ~report.out[1].exact
            /\ VariableFree
            /\ gpt_4 \in DOMAIN Estimate.model_fit)
           => /\ StrLen(Chars(config[1].template)) < 40
                    => Estimate.model_fit[gpt_4]
              /\ StrLen(Chars(config[1].template)) >= 40000
                    => ~Estimate.model_fit[gpt_4]

\* An estimate of exactly three quarters of the limit of gpt-4 does not fit.
C13_Witness ==
    /\ Analyzed
    /\ gpt_4 \in DOMAIN Estimate.model_fit
    /\ 4 * Estimate.estimated_total = 3 * get_model_limit(gpt_4)
    /\ ~Estimate.model_fit[gpt_4]

(************************* C14 ********************************************)
Resolved == report.op = "get_model_limit"

\* The table entries whose key contains the identifier or is contained in
\* it.
FuzzyMatches(id) ==
    {i \in 1..Len(MODEL_LIMITS) :
        \/ IsSubstring(MODEL_LIMITS[i].key, id)
        \/ IsSubstring(id, MODEL_LIMITS[i].key)}

ExactMatches(id) == {i \in 1..Len(MODEL_LIMITS) : MODEL_LIMITS[i].key = id}

gpt_4_turbo_preview ==
    <<"g", "p", "t", "-", "4", "-", "t", "u", "r", "b", "o", "-", "p", "r",
      "e", "v", "i", "e", "w">>

\* C14: get_model_limit returns the limit of the key equal to the
\* lower-cased identifier; failing that, the limit of the first entry in
\* declaration order whose key contains the lower-cased identifier or is
\* contained in it; failing that, 8192.  'gpt-4-turbo-preview' gets the
\* limit of 'gpt-4', the first matching key declared.
C14_ModelLimit ==
    Resolved =>
        LET id == lower(report.args[1])
            limit == report.out[1]
        IN  /\ \A i \in ExactMatches(id) : limit = MODEL_LIMITS[i].limit
            /\ (ExactMatches(id) = {} /\ FuzzyMatches(id) # {})
               => \E i \in FuzzyMatches(id) :
                     /\ \A j \in FuzzyMatches(id) : i <= j
                     /\ limit = MODEL_LIMITS[i].limit
            /\ FuzzyMatches(id) = {} => limit = 8192
            /\ report.args[1] = gpt_4_turbo_preview
               => limit = MODEL_LIMITS[1].limit

\* An identifier that extends 'gpt-4-turbo' resolved to the limit of
\* 'gpt-4', not to that of 'gpt-4-turbo'.
C14_Witness ==
    /\ Resolved
    /\ report.args[1] = gpt_4_turbo_preview
    /\ report.out[1] = 8192
    /\ report.out[1] # MODEL_LIMITS[3].limit

(************************* C15 ********************************************)
Scored == report.op = "score"

QualityReport == report.out[1].result

DimensionNames ==
    <<"clarity", "consistency", "completeness", "efficiency", "structure">>

\* The weights in hundredths: 0.25, 0.20, 0.25, 0.15, 0.15.
StatedWeights == <<25, 20, 25, 15, 15>>

WeightedSum ==
    SumSeq([i \in 1..Len(QualityReport.dimensions) |->
                QualityReport.dimensions[i].score
                * QualityReport.dimensions[i].weight])

\* C15: score returns the five dimensions with the weights 0.25, 0.20,
\* 0.25, 0.15, 0.15, which sum to 1; every dimension score is an integer
\* in [0,100]; and overall_score is the floor of the weighted sum and lies
\* in [0,100].
C15_ScoresInRange ==
    Scored =>
        /\ Len(QualityReport.dimensions) = Len(DimensionNames)
        /\ \A i \in 1..Len(DimensionNames) :
              /\ QualityReport.dimensions[i].dimension = DimensionNames[i]
              /\ QualityReport.dimensions[i].weight = StatedWeights[i]
              /\ QualityReport.dimensions[i].score \in 0..100
        /\ SumSeq(StatedWeights) = 100
        /\ 100 * QualityReport.overall_score <= WeightedSum
        /\ WeightedSum < 100 * (QualityReport.overall_score + 1)
        /\ QualityReport.overall_score \in 0..100

\* Penalties beyond 100 points in one dimension: eleven string variables
\* with a non-string enum member leave the consistency score at 0.
C15_Witness ==
    /\ Scored
    /\ Len(config[1].variables) = 11
    /\ QualityReport.dimensions[2].score = 0
    /\ QualityReport.overall_score > 0

(************************* C16 ********************************************)
StatedGrade(overall) ==
    IF overall >= 90 THEN "A"
    ELSE IF overall >= 80 THEN "B"
    ELSE IF overall >= 70 THEN "C"
    ELSE IF overall >= 60 THEN "D"
    ELSE "F"

StatedSummary ==
    [A |-> "excellent", B |-> "good", C |-> "acceptable",
     D |-> "below_average", F |-> "poor"]

\* C16: the grade is the first match of overall_score against >=90 A,
\* >=80 B, >=70 C, >=60 D, otherwise F; is_production_ready holds exactly
\* when overall_score >= 70, that is when the grade is A, B or C; the
\* summary is the one of the grade.
C16_Grade ==
    Scored =>
        /\ QualityReport.grade = StatedGrade(QualityReport.overall_score)
        /\ report.out[1].ready <=> QualityReport.overall_score >= 70
        /\ report.out[1].ready <=> QualityReport.grade \in {"A", "B", "C"}
        /\ QualityReport.summary = StatedSummary[QualityReport.grade]

\* A report just below the production threshold.
C16_Witness ==
    /\ Scored
    /\ QualityReport.grade = "D"
    /\ ~report.out[1].ready
    /\ QualityReport.summary = "below_average"

(************************* C17 ********************************************)
\* The single-template configuration with the same combined text.
SingleTemplate(cfg) ==
    [cfg EXCEPT !.template = cfg.system_prompt.text \o cfg.user_prompt.text,
                !.system_prompt = NoneText, !.user_prompt = NoneText]

SplitPrompts ==
    /\ Scored
    /\ Truthy(config[1].system_prompt)
    /\ Truthy(config[1].user_prompt)
    /\ config[1].template = <<>>

\* C17: a configuration with non-empty system and user prompts scores at
\* least as much on structure as the configuration whose template is the
\* system text followed by the user text, the other fields being equal.
C17_SplitNoLower ==
    SplitPrompts =>
        /\ all_content_of(SingleTemplate(config[1])) = all_content_of(config[1])
        /\ QualityReport.dimensions[5].score
              >= _score_structure(SingleTemplate(config[1])).score

\* A long text with little structure: 90 when split, 85 as one template.
C17_Witness ==
    /\ SplitPrompts
    /\ QualityReport.dimensions[5].score = 90
    /\ _score_structure(SingleTemplate(config[1])).score = 85

(************************* C19 ********************************************)
\* C19: the tokenizer state only moves from uninitialized to ready or to
\* unavailable and never changes afterwards; the first initialisation,
\* when it fails for whatever cause, is recorded as unavailable and raises
\* nothing in the constructor of TokenCounter, TemplateAnalyzer or
\* QualityScorer; no later construction or count_tokens call attempts the
\* initialisation again.
C19_InitialisedOnce ==
    [][/\ tiktoken'.cls._tiktoken_available # tiktoken.cls._tiktoken_available
            => tiktoken.cls._tiktoken_available = "None"
       /\ tiktoken'.attempts > tiktoken.attempts
            => /\ tiktoken.attempts = 0
               /\ ~tiktoken'.raised
               /\ tiktoken'.cls._tiktoken_available # "None"]_vars

(************************* C20 ********************************************)
\* C20: when several threads construct TokenCounter instances while the
\* tokenizer state is uninitialized, the encoder is loaded exactly once,
\* and no thread observes the state available while no encoder is stored.
C20_LoadedOnce ==
    /\ tiktoken.loads <= 1
    /\ \A t \in Threads : ~threads[t].missing
    /\ tiktoken.cls._tiktoken_available = "True"
          => tiktoken.cls._encoding # "None"

(************************* C18 ********************************************)
SemanticResult == semantic.result[1]

IssuesOf(result) == {result.issues[i] : i \in 1..Len(result.issues)}

\* The message an issue is reported with: the marker, the issue's message,
\* and the suggestion when there is one.
StatedMessage(issue) ==
    IF issue.suggestion \in {NoSuggestion, Suggestion("")}
    THEN "[Semantic] " \o issue.message
    ELSE "[Semantic] " \o issue.message \o " (Suggestion: "
            \o issue.suggestion[1] \o ")"

StatedMessages(result, severities) ==
    LET chosen == SelectSeq(result.issues,
                            LAMBDA issue : issue.severity \in severities)
    IN  [i \in 1..Len(chosen) |-> StatedMessage(chosen[i])]

\* C18: the result of validate is valid and holds only info and warning
\* issues; add_issue appends the issue and makes the result invalid only
\* for an issue of severity "error"; to_validation_result reports every
\* info or warning issue, with the "[Semantic] " marker, among the warnings
\* and none among the errors, and keeps is_valid as it was.
C18_SemanticValidity ==
    /\ semantic.op = "validate" =>
            /\ SemanticResult.is_valid
            /\ \A issue \in IssuesOf(SemanticResult) :
                    issue.severity \in {"info", "warning"}
    /\ semantic.op = "add_issue" =>
            /\ SemanticResult.issues
                    = Append(semantic.before[1].issues, semantic.issue[1])
            /\ SemanticResult.is_valid
                    = (semantic.before[1].is_valid
                         /\ semantic.issue[1].severity # "error")
    /\ semantic.op = "to_validation_result" =>
            /\ semantic.converted[1].warnings
                    = StatedMessages(SemanticResult, {"info", "warning"})
            /\ semantic.converted[1].errors
                    = StatedMessages(SemanticResult, {"error"})
            /\ semantic.converted[1].is_valid = SemanticResult.is_valid

\* A validated template with a warning issue (a role defined in the user
\* prompt) and an info issue, converted: valid, two or more warnings, no
\* error.
C18_Witness ==
    /\ semantic.op = "to_validation_result"
    /\ semantic.added = 0
    /\ config # <<>>
    /\ SemanticResult.is_valid
    /\ \E issue \in IssuesOf(SemanticResult) : issue.severity = "warning"
    /\ \E issue \in IssuesOf(SemanticResult) : issue.severity = "info"
    /\ Len(semantic.converted[1].warnings) = Len(SemanticResult.issues)
    /\ semantic.converted[1].errors = <<>>
    /\ semantic.converted[1].is_valid

SplitConfigured ==
    /\ config # <<>>
    /\ ~config[1].system_prompt.none
    /\ ~config[1].user_prompt.none

RenderedPrompt(prompt, variables) ==
    TemplateRenderer_render(prompt.text,
                            _apply_defaults(config[1], variables))

C22_SplitRender ==
    (last.op = "run_template" /\ SplitConfigured
        /\ RenderedPrompt(config[1].system_prompt, last.vars).kind = "return"
        /\ RenderedPrompt(config[1].user_prompt, last.vars).kind = "return")
    => /\ last.out.kind = "return"
       /\ last.out.system_rendered =
            Text(RenderedPrompt(config[1].system_prompt, last.vars).text)
       /\ last.out.user_rendered =
            Text(RenderedPrompt(config[1].user_prompt, last.vars).text)

(***************************************************************************)
(* C23: the analyzer's nesting-depth scan keeps 0 <= current depth <=      *)
(* maximum depth after every tag; if, for and block add 1 to the current   *)
(* depth and raise the maximum when exceeded; endif, endfor and endblock   *)
(* subtract 1 but never below 0; elif and else change nothing; the depth   *)
(* returned is the maximum reached, so an end tag before any opening does  *)
(* not lower the depth counted for the openings after it.                  *)
(***************************************************************************)
RECURSIVE MaxOf(_)
MaxOf(depths) ==
    IF depths = <<>> THEN 0 ELSE Max(Head(depths), MaxOf(Tail(depths)))

RECURSIVE AfterLeadingEnds(_)
AfterLeadingEnds(tags) ==
    IF tags # <<>> /\ Head(tags) \in {"endif", "endfor", "endblock"}
    THEN AfterLeadingEnds(Tail(tags)) ELSE tags

\* The depth of a well-nested run of openings, counted by hand.
RECURSIVE Openings(_)
Openings(tags) ==
    IF tags # <<>> /\ Head(tags) \in {"if", "for", "block"}
    THEN 1 + Openings(Tail(tags)) ELSE 0

TagEffect ==
    LET tag == scan.tags[scan.i]
        current == scan.current_depth
        maximum == scan.max_depth
    IN  /\ tag \in {"if", "for", "block"} =>
              /\ scan'.current_depth = current + 1
              /\ scan'.max_depth =
                    IF current + 1 > maximum THEN current + 1 ELSE maximum
        /\ tag \in {"endif", "endfor", "endblock"} =>
              /\ scan'.current_depth = IF current = 0 THEN 0 ELSE current - 1
              /\ scan'.max_depth = maximum
        /\ tag \in {"elif", "else"} =>
              /\ scan'.current_depth = current
              /\ scan'.max_depth = maximum

C23_DepthScan ==
    /\ [](scan.pc # "none" =>
            /\ 0 <= scan.current_depth
            /\ scan.current_depth <= scan.max_depth)
    /\ [][(scan.pc = "loop" /\ scan'.i = scan.i + 1) => TagEffect]_vars
    /\ [](scan.pc = "done" =>
            /\ scan.returned = <<MaxOf(scan.depths)>>
            /\ scan.returned =
                 <<_analyze_structure(config[1]).nesting_depth>>
            /\ scan.returned =
                 <<MaxDepth(AfterLeadingEnds(scan.tags), 1, 0, 0,
                            {"if", "for", "block"},
                            {"endif", "endfor", "endblock"})>>
            /\ Openings(AfterLeadingEnds(scan.tags))
                    = Len(AfterLeadingEnds(scan.tags))
                 => scan.returned = <<Len(AfterLeadingEnds(scan.tags))>>)

C23_Witness ==
    /\ scan.pc = "done"
    /\ scan.tags = <<"endif", "if", "else", "block">>
    /\ scan.depths = <<0, 1, 1, 2>>
    /\ scan.returned = <<2>>

(***************************************************************************)
(* C24: for every template text the nesting depth the analyzer computes    *)
(* equals the nesting depth the quality scorer's structure dimension       *)
(* computes, so the analyzer's "depth > 3" recommendation and the scorer's *)
(* "depth > 3" penalty fire for the same inputs.                           *)
(***************************************************************************)
\* The depth the structure dimension reports in its details; it reports
\* none when the depth is 0.
RECURSIVE StructureDepth(_)
StructureDepth(details) ==
    IF details = <<>> THEN 0
    ELSE IF Head(details).code \in {"deep_nesting", "nesting"}
         THEN Head(details).n
         ELSE StructureDepth(Tail(details))

DeepNestingPenalty(dimension) ==
    \E i \in 1..Len(dimension.suggestions) :
        dimension.suggestions[i].code = "reduce_nesting"

DeepNestingRecommended(cfg) ==
    LET structure == _analyze_structure(cfg)
    IN  structure.nesting_depth > 3

C24_SameDepth ==
    (scan.pc = "done" /\ report.op = "_score_structure")
    => /\ scan.returned = <<StructureDepth(report.out[1].details)>>
       /\ DeepNestingRecommended(config[1])
            <=> DeepNestingPenalty(report.out[1])

(***************************************************************************)
(* C25, as stated: the recommendations of analyze are in rule-declaration  *)
(* order: total > 10000, no split and no sections with static tokens >     *)
(* 500, nesting depth > 3, variable missing a description, variable used   *)
(* more than 5 times, missing overall description; each rule appends at    *)
(* most one string (one per variable for the per-variable rules), so every *)
(* missing-description recommendation comes before every usage-count one.  *)
(***************************************************************************)
Recommendations == report.out[1].result.recommendations

RuleRank(code) ==
    CASE code = "split_template" -> 1
      [] code = "add_structure" -> 2
      [] code = "deep_nesting" -> 3
      [] code = "lacks_description" -> 4
      [] code = "repetition" -> 5
      [] OTHER -> 6

AtMostOncePerRule ==
    \A i, j \in 1..Len(Recommendations) :
        (/\ i < j
         /\ Recommendations[i].code = Recommendations[j].code)
        => (/\ Recommendations[i].code \in {"lacks_description", "repetition"}
            /\ Recommendations[i].name # Recommendations[j].name)

C25_RuleOrder ==
    Analyzed =>
        /\ AtMostOncePerRule
        /\ \A i, j \in 1..Len(Recommendations) :
              i < j => RuleRank(Recommendations[i].code)
                          <= RuleRank(Recommendations[j].code)

\* C25, amended: the three template-level rules come first, in declaration
\* order; then, for each variable in the order of the analysis, its
\* missing-description recommendation followed by its usage-count one (so
\* a usage-count recommendation of an earlier variable precedes the
\* missing-description recommendation of a later one); then the missing
\* overall description.  No rule appends twice for the same subject.
VariableIndex(name) ==
    LET analysed == report.out[1].result.variable_analysis
    IN  IF \E k \in 1..Len(analysed) : analysed[k].name = name
        THEN CHOOSE k \in 1..Len(analysed) : analysed[k].name = name
        ELSE 0

Place(recommendation) ==
    CASE recommendation.code = "split_template" -> 100
      [] recommendation.code = "add_structure" -> 200
      [] recommendation.code = "deep_nesting" -> 300
      [] recommendation.code = "lacks_description" ->
            400 + 10 * VariableIndex(recommendation.name) + 1
      [] recommendation.code = "repetition" ->
            400 + 10 * VariableIndex(recommendation.name) + 2
      [] OTHER -> 500

C25_RecommendationOrder ==
    Analyzed =>
        /\ AtMostOncePerRule
        /\ \A i \in 1..Len(Recommendations) :
              Recommendations[i].code \in {"lacks_description", "repetition"}
                 => VariableIndex(Recommendations[i].name) > 0
        /\ \A i, j \in 1..Len(Recommendations) :
              i < j => Place(Recommendations[i]) < Place(Recommendations[j])

C25_Witness ==
    /\ Analyzed
    /\ Len(Recommendations) = 5
    /\ Recommendations[1].code = "split_template"
    /\ Recommendations[2] = Recommendation("repetition", "x", 6)
    /\ Recommendations[3].code = "lacks_description"
    /\ Recommendations[3].name = "y"
    /\ Recommendations[4].code = "repetition"
    /\ Recommendations[5].code = "template_description"

(***************************************************************************)
(* C26: the structure dimension is clamped to [0,100] once, after all the  *)
(* adjustments: the +5 for having both prompts is added before the         *)
(* penalties are subtracted from the running value, so a split             *)
(* configuration scores 100 with no 15-point penalty, 90 with exactly one  *)
(* and 75 with both.                                                       *)
(***************************************************************************)
StructureScored == report.op = "_score_structure"

Structure == report.out[1]

HasDetail(code) ==
    \E i \in 1..Len(Structure.details) : Structure.details[i].code = code

\* The adjustment each detail line stands for.
DetailDelta(code) ==
    CASE code = "split" -> 5
      [] code = "no_user_prompt" -> -10
      [] code = "minimal_structure" -> -15
      [] code = "deep_nesting" -> -15
      [] OTHER -> 0

Adjustments ==
    SumSeq([i \in 1..Len(Structure.details) |->
                DetailDelta(Structure.details[i].code)])

Penalties ==
    Cardinality({code \in {"minimal_structure", "deep_nesting"} :
                    HasDetail(code)})

C26_ClampedOnce ==
    StructureScored =>
        /\ Structure.score \in 0..100
        /\ Structure.score = Min(100, Max(0, 100 + Adjustments))
        /\ HasDetail("split") =>
              Structure.score = (CASE Penalties = 0 -> 100
                                   [] Penalties = 1 -> 90
                                   [] OTHER -> 75)

C26_Witness ==
    /\ StructureScored
    /\ HasDetail("split")
    /\ Penalties = 2
    /\ Structure.score = 75

(***************************************************************************)
(* C27, as stated: estimate_variable_tokens takes a sample value for the   *)
(* variable's name if supplied (tokens of str(value)), else the declared   *)
(* default if not null (tokens of str(default)), else the per-type base    *)
(* scaled by the description: multiplied by 5 if it contains a long-hint   *)
(* word, integer-divided by 2 if it contains a short-hint word; sample     *)
(* values and defaults are never scaled.                                   *)
(***************************************************************************)
Estimated == report.op = "estimate_variable_tokens"

EstimatedVar == report.args[1]

EstimatedSamples == report.args[2]

\* count_tokens of str(value), by the counter that made the estimate.
TokensOf(value) ==
    count_tokens(report.out[1].self, report.out[1].cls, PyStrOf(value))

BaseOf(type) ==
    CASE type = "string" -> 50
      [] type = "integer" -> 2
      [] type = "float" -> 3
      [] type = "boolean" -> 1
      [] type = "list" -> 100
      [] type = "object" -> 150

HasHint(description, words) ==
    \E i \in 1..Len(description) : description[i] \in words

LongHint ==
    HasHint(EstimatedVar.description,
            {"long", "large", "full", "complete", "code", "content"})

ShortHint == HasHint(EstimatedVar.description, {"short", "brief", "single"})

\* Both scalings applied when both kinds of word are present.
ScaledByEach(base) ==
    LET multiplied == IF LongHint THEN base * 5 ELSE base
    IN  IF ShortHint THEN multiplied \div 2 ELSE multiplied

\* The division only when no long-hint word is present.
ScaledByFirst(base) ==
    IF LongHint THEN base * 5
    ELSE IF ShortHint THEN base \div 2 ELSE base

C27_EachHintScales ==
    Estimated =>
        report.out[1].out =
            IF EstimatedVar.name \in DOMAIN EstimatedSamples
            THEN TokensOf(EstimatedSamples[EstimatedVar.name])
            ELSE IF EstimatedVar.default # PyNone
            THEN TokensOf(EstimatedVar.default)
            ELSE ScaledByEach(BaseOf(EstimatedVar.type))

\* C27, amended: the same priority of sources; the base is multiplied by 5
\* if the description contains a long-hint word, and otherwise
\* integer-divided by 2 if it contains a short-hint word: a description
\* with words of both kinds only multiplies.
C27_SourcePriority ==
    Estimated =>
        report.out[1].out =
            IF EstimatedVar.name \in DOMAIN EstimatedSamples
            THEN TokensOf(EstimatedSamples[EstimatedVar.name])
            ELSE IF EstimatedVar.default # PyNone
            THEN TokensOf(EstimatedVar.default)
            ELSE ScaledByFirst(BaseOf(EstimatedVar.type))

C27_Witness ==
    /\ Estimated
    /\ EstimatedVar.name \notin DOMAIN EstimatedSamples
    /\ EstimatedSamples # <<>>
    /\ EstimatedVar.default = PyNone
    /\ EstimatedVar.type = "boolean"
    /\ LongHint /\ ShortHint
    /\ report.out[1].out = 5

(***************************************************************************)
(* C28: the placeholder-quality check emits, for each distinct name used   *)
(* as {{name}} in the combined content, exactly one issue if some          *)
(* occurrence of it stands alone (nothing but whitespace within 20         *)
(* characters on either side) and no issue otherwise; the number of these  *)
(* issues never exceeds the number of distinct names used.                 *)
(***************************************************************************)
SemanticallyValidated == semantic.op = "validate"

CombinedContent == all_content_of(config[1])

\* The chunk where the placeholder starting at chunk i closes, 0 if chunk
\* i does not start a placeholder of the name.
ClosingOf(s, i, name) ==
    LET n == SkipSpaces(s, i + 1)
        c == SkipSpaces(s, n + 1)
    IN  IF s[i] = "{{" /\ n <= Len(s) /\ s[n] = name /\ c <= Len(s)
           /\ s[c] = "}}"
        THEN c ELSE 0

NamesUsed(s) ==
    {name \in Identifiers :
        \E i \in 1..Len(s) : ClosingOf(s, i, name) # 0}

\* Chunk q ends less than 20 characters before chunk i starts.
Before20(s, q, i) ==
    q < i /\ Offset(s, i) - (Offset(s, q) + PieceLen(s[q])) < 20

\* Chunk q starts less than 20 characters after chunk c ends.
After20(s, q, c) ==
    q > c /\ Offset(s, q) - (Offset(s, c) + PieceLen(s[c])) < 20

StandsAlone(s, i, name) ==
    /\ ClosingOf(s, i, name) # 0
    /\ \A q \in 1..Len(s) :
          (Before20(s, q, i) \/ After20(s, q, ClosingOf(s, i, name)))
             => IsSpace(s[q])

PlaceholderIssues(name) ==
    {k \in 1..Len(semantic.result[1].issues) :
        /\ semantic.result[1].issues[k].type = "placeholder_quality"
        /\ semantic.result[1].issues[k].message
              = "Variable '" \o name \o "' appears without context"}

AllPlaceholderIssues ==
    {k \in 1..Len(semantic.result[1].issues) :
        semantic.result[1].issues[k].type = "placeholder_quality"}

C28_OneIssuePerName ==
    SemanticallyValidated =>
        /\ \A name \in NamesUsed(CombinedContent) :
              Cardinality(PlaceholderIssues(name)) =
                 IF \E i \in 1..Len(CombinedContent) :
                        StandsAlone(CombinedContent, i, name)
                 THEN 1 ELSE 0
        /\ Cardinality(AllPlaceholderIssues)
              <= Cardinality(NamesUsed(CombinedContent))

\* C28, for the names the configuration declares: an issue is emitted for
\* a name only if some occurrence of it stands alone, with nothing but
\* whitespace within 20 characters on either side.
C28_DeclaredNames ==
    SemanticallyValidated =>
        \A name \in NamesUsed(CombinedContent) :
            (/\ get_variable(config[1], name) # <<>>
             /\ PlaceholderIssues(name) # {})
            => \E i \in 1..Len(CombinedContent) :
                    StandsAlone(CombinedContent, i, name)

(***************************************************************************)
(* C29: when no exact tokenizer is used, count_tokens(text) for non-empty  *)
(* text equals ceil(len(text)/4) + 0.25 * (number of maximal whitespace    *)
(* runs in text), taken as an integer; every non-empty text of 1 to 4      *)
(* characters without whitespace counts as 1 token.                        *)
(***************************************************************************)
CeilDiv(n, k) == (n + k - 1) \div k

C29_CeilingEstimate ==
    (Counted /\ ~report.out[1].exact /\ report.out[1].text # <<>>)
    => LET text == report.out[1].text
           runs == Cardinality(WhitespaceRuns(text))
       IN  /\ report.out[1].out = CeilDiv(StrLen(text), 4) + runs \div 4
           /\ (StrLen(text) \in 1..4 /\ runs = 0) => report.out[1].out = 1

(***************************************************************************)
(* C30: TemplateValidator.validate inspects only the template field: the   *)
(* result is the one of the same configuration without its prompts.  For   *)
(* a split-prompt configuration with an empty template every declared      *)
(* variable is reported as unused even when the prompts reference it, no   *)
(* name used in the prompts is reported as undeclared, and a syntax error  *)
(* in system_prompt or user_prompt leaves is_valid as the declarations     *)
(* alone make it: true when they have no error.                            *)
(***************************************************************************)
ValidateCalled == last.op = "validate" /\ config # <<>>

WithoutPrompts(cfg) ==
    [cfg EXCEPT !.system_prompt = NoneText, !.user_prompt = NoneText]

Warned(res, message) ==
    \E i \in 1..Len(res.warnings) : res.warnings[i] = message

SplitWithEmptyTemplate(cfg) ==
    /\ cfg.template = <<>>
    /\ ~cfg.system_prompt.none
    /\ ~cfg.user_prompt.none

PromptSyntaxError(cfg) ==
    \/ validate_syntax(cfg.system_prompt.text) # <<>>
    \/ validate_syntax(cfg.user_prompt.text) # <<>>

PromptNames(cfg) ==
    extract_variables(cfg.system_prompt.text)
        \cup extract_variables(cfg.user_prompt.text)

DeclarationsValid(cfg) ==
    /\ \A i, j \in 1..Len(cfg.variables) :
          i # j => cfg.variables[i].name # cfg.variables[j].name
    /\ validate_variables(cfg).is_valid

C30_TemplateOnly ==
    ValidateCalled =>
        LET cfg == config[1]
            res == last.out.res
        IN  /\ last.out.kind = "result"
            /\ res = validate(WithoutPrompts(cfg))
            /\ SplitWithEmptyTemplate(cfg) =>
                  /\ \A i \in 1..Len(cfg.variables) :
                        Warned(res, Msg("unused", cfg.variables[i].name))
                  /\ \A n \in PromptNames(cfg) :
                        ~Warned(res, Msg("undeclared", n))
                  /\ res.errors = validate_variables(cfg).errors
                  /\ DeclarationsValid(cfg) => res.is_valid
            /\ \A n \in PromptNames(cfg) \ extract_variables(cfg.template) :
                  ~Warned(res, Msg("undeclared", n))

\* x is declared and used in the user prompt, y is used and not declared,
\* the system prompt leaves a placeholder open: valid, x unused.
C30_Witness ==
    /\ ValidateCalled
    /\ SplitWithEmptyTemplate(config[1])
    /\ config[1].system_prompt = Text(Unclosed)
    /\ validate_syntax(Unclosed) # <<>>
    /\ config[1].user_prompt = Text(<<Placeholder("x")>>)
    /\ config[1].variables = <<Vx_req>>
    /\ last.out.res.is_valid
    /\ last.out.res.warnings = <<Msg("unused", "x")>>

====
